---------------------------- MODULE Spec2Model ----------------------------
(***************************************************************************)
(* Model of the spatial support-correlation code of "Armadura de Suspensao *)
(* - Vigas" (relger.py, nodes_vigas_tqs.py).                               *)
(*                                                                         *)
(* Numbers.  The code computes with floats; the model computes exactly,    *)
(* on an integer grid (escala units = 1 cm) of axis-parallel segments where *)
(* every quantity the code computes (lengths, projections, arc-lengths) is *)
(* an integer.  Distances are compared through their squares.  A division  *)
(* or a square root that is not exact on an input stops TLC with an error  *)
(* instead of rounding.                                                    *)
(*                                                                         *)
(* None.  A Python value that may be None is a sequence of length <= 1:    *)
(* None is <<>> and a present value v is <<v>>.                            *)
(***************************************************************************)
EXTENDS Integers, Sequences, FiniteSets, TLC

VARIABLES
    pc,                 \* position of the modelled call
    apoios,             \* calcular_xi_acumulado_apoios: argument apoios
    coords_hospedeira,  \* calcular_xi_acumulado_apoios: argument coords_hospedeira
    apoios_com_xi,      \* calcular_xi_acumulado_apoios: returned list
    escala,             \* grid units per cm of the coordinates (1 unless stated)
    linhas,             \* the lines of RELGER.LST
    mapeamento_apoios,  \* {viga_hospedeira: [{viga_apoiada, x, y}, ...]}
    coords_hospedeiras, \* {viga: [(x1, y1), (x2, y2), ...]}
    chamada,            \* the arguments of the call of a specification that are not in the
                        \* variables above: of determinar_viga_apoiada_espacial, of
                        \* encontrar_vigas_apoiadas_por_hospedeira, of extrair_geometria_completa_viga
    resultado,          \* what that call returned
    resultado_repetido, \* what a second call with the same arguments returned
    i,                  \* processar_relger: index of the next line
    viga_atual,         \* processar_relger: beam of the last 'Viga=' line
    secao_atual,        \* processar_relger: section of the last section line
    vao_atual,          \* processar_relger: span of the last 'Vao=' line
    mapa_colunas,       \* processar_relger: columns of the last shear header
    procurar_dados_cisalhamento,    \* processar_relger: inside a shear block
    vigas_extraidas,    \* processar_relger: the records built so far
    dados,              \* what processar_relger returned (None before, and on failure)
    mapeamento_validado,    \* what validar_apoios_cruzado returned
    provedor,           \* what mapear_apoios_vigas does: raises, or returns a mapping
    json_gerado,        \* vigas_suspensao.json has been written
    exibido,            \* exibir_dados has shown the records
    sucesso,            \* what processar_relger_completo returned (None before)
    caminho_relger,     \* what selecionar_pasta_pavimento returned (None before)
    todas_vigas,        \* mapear_apoios_vigas: the beams of the floor, in iterator order
    mapeamento_vigas,   \* mapear_apoios_vigas: the dict mapeamento (None before, and on failure)
    arquivo_sessao,     \* relatorios_sessao.json: None, or the beams of its reports
    saida,              \* main: how the menu loop was left (None inside the loop)
    limpou,             \* what the last limpar_json_relatorios returned (None before)
    adicionados         \* how many calls of adicionar_relatorio have returned True

varsXi == <<apoios, coords_hospedeira, apoios_com_xi, escala>>
varsEntrada == <<linhas, mapeamento_apoios, coords_hospedeiras>>
varsEsp == <<chamada, resultado, resultado_repetido>>
varsLaco == <<i, viga_atual, secao_atual, vao_atual, mapa_colunas,
              procurar_dados_cisalhamento, vigas_extraidas>>
varsRelger == <<varsLaco, dados>>
varsCompleto == <<provedor, json_gerado, exibido, sucesso, caminho_relger>>
varsMapear == <<todas_vigas, mapeamento_vigas>>
varsMenu == <<arquivo_sessao, saida, limpou, adicionados>>
vars == <<pc, varsXi, varsEntrada, varsEsp, varsRelger, mapeamento_validado, varsCompleto,
          varsMapear, varsMenu>>

---------------------------------------------------------------------------
(* Bounds of the model *)

\* largest grid coordinate of a node or of a support point
MaxCoord == 2
\* largest number of nodes of a host polyline
MaxNos == 3
\* largest number of supports handed to calcular_xi_acumulado_apoios
MaxApoiosXi == 1
\* largest number of supports of the host in the geometry mapping
MaxApoios == 2
\* number of beams of the report besides the host
NumOutras == 3

---------------------------------------------------------------------------
(* Optional values and arithmetic helpers *)

None == <<>>
Some(v) == <<v>>
Val(o) == o[1]

Min2(a, b) == IF a < b THEN a ELSE b
Max2(a, b) == IF a > b THEN a ELSE b
Quadrado(a) == a * a

\* (...)**0.5 where it is exact
Raiz(n) == CHOOSE r \in 0..n : r * r = n

\* a / b where it is exact (b > 0)
DivExata(a, b) == IF a % b = 0 THEN a \div b ELSE CHOOSE q \in {} : TRUE

\* beam identifiers: V<num> with an optional one-letter suffix, V<num>-<suf>
Viga(n) == [num |-> n, suf |-> ""]
VigaSuf(n, s) == [num |-> n, suf |-> s]

---------------------------------------------------------------------------
(* relger.py: calcular_xi_acumulado_apoios *)

\* the squared length of the segment p1-p2
Len2Seg(p1, p2) == Quadrado(p2[1] - p1[1]) + Quadrado(p2[2] - p1[2])

\* a variant that stores the length of each segment instead of the sum so far
DistanciasEntreNos(coords) ==
    [k \in 1..Len(coords) |->
        IF k = 1 THEN 0 ELSE Raiz(Len2Seg(coords[k - 1], coords[k]))]

\* a variant that leaves the length of a degenerate segment out of the sum
RECURSIVE XiNosSemDegenerados(_)
XiNosSemDegenerados(coords) ==
    IF Len(coords) <= 1 THEN <<0>>
    ELSE LET ant  == XiNosSemDegenerados(SubSeq(coords, 1, Len(coords) - 1))
             len2 == Len2Seg(coords[Len(coords) - 1], coords[Len(coords)])
         IN  Append(ant, ant[Len(ant)] + IF 10000 * len2 < escala * escala THEN 0 ELSE Raiz(len2))

\* xi_nos: the arc-length of each node; [0.0] for an empty or one-node list
RECURSIVE xi_nos(_)
xi_nos(coords) ==
    IF Len(coords) <= 1 THEN <<0>>
    ELSE LET ant  == xi_nos(SubSeq(coords, 1, Len(coords) - 1))
             dist == Raiz(Len2Seg(coords[Len(coords) - 1], coords[Len(coords)]))
         IN  Append(ant, ant[Len(ant)] + dist)

\* len_seg < 0.01, on the squared length
SegmentoDegenerado(len2) == 10000 * len2 < escala * escala

\* a variant that leaves the projection outside the segment where it falls
LimitarProjecaoSemLimite(prod, len2) == prod

\* proj_escalar = max(0.0, min(1.0, proj_escalar)), as the numerator over len_seg**2
LimitarProjecao(prod, len2) == Max2(0, Min2(len2, prod))

\* the projection of the support (xa, ya) on the segment p1-p2: the squared
\* distance to the clamped projection and proj_escalar * len_seg
ProjecaoNoSegmento(xa, ya, p1, p2) ==
    LET dx_seg   == p2[1] - p1[1]
        dy_seg   == p2[2] - p1[2]
        len2     == Len2Seg(p1, p2)
        len_seg  == Raiz(len2)
        dx_apoio == xa - p1[1]
        dy_apoio == ya - p1[2]
        num      == LimitarProjecao(dx_apoio * dx_seg + dy_apoio * dy_seg, len2)
        xproj    == p1[1] + DivExata(num * dx_seg, len2)
        yproj    == p1[2] + DivExata(num * dy_seg, len2)
    IN  [dist2  |-> Quadrado(xa - xproj) + Quadrado(ya - yproj),
         avanco |-> DivExata(num, len_seg)]

\* a variant that lets a later segment at the same distance win
MaisProximoOuIgual(dist2, menor) == menor = None \/ dist2 <= Val(menor)

\* dist_perp < menor_dist_ao_segmento (None is float('inf'))
MaisProximo(dist2, menor) == menor = None \/ dist2 < Val(menor)

\* xi_apoio = xi_nos[i] + proj_escalar * len_seg
XiDoApoioSemInicio(xi_no, avanco) == avanco
XiDoApoio(xi_no, avanco) == xi_no + avanco

\* the loop over the segments i .. len(coords)-1, from (melhor_xi, menor_dist)
RECURSIVE PercorrerSegmentos(_, _, _, _, _)
PercorrerSegmentos(coords, xa, ya, seg, melhor) ==
    IF seg > Len(coords) - 1 THEN melhor
    ELSE IF SegmentoDegenerado(Len2Seg(coords[seg], coords[seg + 1]))
         THEN PercorrerSegmentos(coords, xa, ya, seg + 1, melhor)
         ELSE LET pr == ProjecaoNoSegmento(xa, ya, coords[seg], coords[seg + 1])
              IN  IF MaisProximo(pr.dist2, melhor.menor_dist2)
                  THEN PercorrerSegmentos(coords, xa, ya, seg + 1,
                         [melhor_xi   |-> Some(XiDoApoio(xi_nos(coords)[seg], pr.avanco)),
                          menor_dist2 |-> Some(pr.dist2)])
                  ELSE PercorrerSegmentos(coords, xa, ya, seg + 1, melhor)

\* apoio_copia['xi_acumulado'] = melhor_xi if melhor_xi is not None else 0.0
XiFinal(melhor_xi) == IF melhor_xi = None THEN Some(0) ELSE melhor_xi

ComXi(apoio, xi) ==
    [viga_apoiada |-> apoio.viga_apoiada, x |-> apoio.x, y |-> apoio.y,
     xi_acumulado |-> xi]

\* the dict apoio of the caller after its turn of the loop: xi_acumulado is
\* written to apoio_copia = apoio.copy(), never to apoio
ApoioSemCopia(apoio, xi) == ComXi(apoio, xi)
ApoioAposCopia(apoio, xi) == apoio

calcular_xi_acumulado_apoios(aps, coords) ==
    [k \in 1..Len(aps) |->
        LET apoio == aps[k]
        IN  IF apoio.x = None \/ apoio.y = None
            THEN ComXi(apoio, None)
            ELSE ComXi(apoio,
                   XiFinal(PercorrerSegmentos(coords, Val(apoio.x), Val(apoio.y), 1,
                             [melhor_xi |-> None, menor_dist2 |-> None]).melhor_xi))]

\* the list apoios of the caller after calcular_xi_acumulado_apoios(aps, coords)
ApoiosDepois(aps, coords) ==
    [k \in 1..Len(aps) |->
        ApoioAposCopia(aps[k], calcular_xi_acumulado_apoios(aps, coords)[k].xi_acumulado)]

---------------------------------------------------------------------------
(* The report RELGER.LST: a list of lines.  A line is a record whose field *)
(* t tells what the code's substring tests and regular expressions find in *)
(* it:                                                                     *)
(*   viga    'Viga=  <n>  <titulo>'       titulo: V<num> or V<num>-<suf>   *)
(*   vao     'Vao= <numero> /L= /B= /H= /BCs= /BCi='   (lengths in cm)     *)
(*   cis     'CISALHAMENTO- ... AsTrt ...' header, colunas: its columns    *)
(*   dados   a row of numeric tokens                                       *)
(*   branco  an empty line          torcao  'T O R C A O ...'              *)
(*   reac    'REAC. APOIO' header   apoio   a row that names a beam        *)
(*   sep     a line of '='                                                 *)

LinhaViga(titulo) == [t |-> "viga", titulo |-> titulo]
LinhaVao(numero, L, BCs, B, H) ==
    [t |-> "vao", numero |-> numero, L |-> L, BCs |-> BCs, B |-> B, H |-> H]
LinhaCis(colunas) == [t |-> "cis", colunas |-> colunas]
LinhaTokens(tokens) == [t |-> "dados", tokens |-> tokens]
LinhaBranco == [t |-> "branco"]
LinhaTorcao == [t |-> "torcao"]
LinhaReac == [t |-> "reac"]
LinhaApoio(viga) == [t |-> "apoio", viga |-> viga]
LinhaSep == [t |-> "sep"]

\* 'Viga=' in linha
TemViga(linha) == linha.t = "viga"
\* 'Vao=' in linha
TemVao(linha) == linha.t = "vao"
\* '/B=' in linha and '/H=' in linha
TemSecao(linha) == linha.t = "vao"

\* the decimal digits of n are a prefix of the decimal digits of m
RECURSIVE PrefixoDecimal(_, _)
PrefixoDecimal(n, m) == m = n \/ (m >= 10 /\ PrefixoDecimal(n, m \div 10))

\* the text of ref occurs in the text of titulo ('V64' occurs in 'V649')
TextoContem(titulo, ref) ==
    IF ref.suf = "" THEN PrefixoDecimal(ref.num, titulo.num)
    ELSE ref = titulo

\* ref_viga in linha, for a line that holds 'Viga='
ContemRef(linha, ref) == linha.t = "viga" /\ TextoContem(linha.titulo, ref)

\* extrair_ref_viga: re.search(r'Viga=\s*\d+\s+(V\d+)'): the title without its suffix
extrair_ref_viga(linha) ==
    IF linha.t = "viga" THEN Some(Viga(linha.titulo.num)) ELSE None

\* extrair_secao: BxH in cm
extrair_secao(linha) == IF linha.t = "vao" THEN Some(<<linha.B, linha.H>>) ELSE None

\* extrair_geometrias_vigas: {ref_viga: largura_cm}, the last section line of each beam
RECURSIVE extrair_geometrias_de(_, _, _, _)
extrair_geometrias_de(lns, k, viga, geometrias) ==
    IF k > Len(lns) THEN geometrias
    ELSE IF TemViga(lns[k])
         THEN extrair_geometrias_de(lns, k + 1, extrair_ref_viga(lns[k]), geometrias)
         ELSE IF TemSecao(lns[k]) /\ viga # None
              THEN extrair_geometrias_de(lns, k + 1, viga,
                     [v \in DOMAIN geometrias \cup {Val(viga)} |->
                        IF v = Val(viga) THEN lns[k].B ELSE geometrias[v]])
              ELSE extrair_geometrias_de(lns, k + 1, viga, geometrias)

extrair_geometrias_vigas(lns) == extrair_geometrias_de(lns, 1, None, <<>>)

\* extrair_geometria_completa_viga, first loop: the spans read for ref_viga
RECURSIVE VaosDaViga(_, _, _, _, _)
VaosDaViga(lns, ref_viga, k, vaos, viga_encontrada) ==
    IF k > Len(lns) THEN vaos
    ELSE IF TemViga(lns[k]) /\ ContemRef(lns[k], ref_viga)
         THEN VaosDaViga(lns, ref_viga, k + 1, vaos, TRUE)
         ELSE LET vaos2 == IF viga_encontrada /\ TemVao(lns[k])
                           THEN Append(vaos, [numero |-> lns[k].numero, L |-> lns[k].L,
                                              BCs |-> lns[k].BCs])
                           ELSE vaos
              IN  IF viga_encontrada /\ TemViga(lns[k]) /\ ~ContemRef(lns[k], ref_viga)
                  THEN vaos2
                  ELSE VaosDaViga(lns, ref_viga, k + 1, vaos2, viga_encontrada)

\* xi_atual before span k: the sum of L + BCs of the spans before it
RECURSIVE XiAntesDe(_, _)
XiAntesDe(vaos, k) ==
    IF k <= 1 THEN 0 ELSE XiAntesDe(vaos, k - 1) + vaos[k - 1].L + vaos[k - 1].BCs

\* extrair_geometria_completa_viga: vaos and xi_acumulado_por_vao (a later
\* span with the same numero overwrites the entry)
extrair_geometria_completa_viga(lns, ref_viga) ==
    LET vaos == VaosDaViga(lns, ref_viga, 1, <<>>, FALSE)
        ultimo(n) == CHOOSE k \in 1..Len(vaos) :
                        /\ vaos[k].numero = n
                        /\ \A j \in (k + 1)..Len(vaos) : vaos[j].numero # n
    IN  [vaos |-> vaos,
         xi_acumulado_por_vao |->
            [n \in {vaos[k].numero : k \in 1..Len(vaos)} |-> XiAntesDe(vaos, ultimo(n))]]

---------------------------------------------------------------------------
(* relger.py: determinar_viga_apoiada_espacial *)

Abs(a) == IF a < 0 THEN -a ELSE a

\* dict.get(chave, padrao)
Get(d, chave, padrao) == IF chave \in DOMAIN d THEN d[chave] ELSE padrao

\* (None, None, None, None)
Nenhum == [viga_apoiada |-> None, a_cm |-> None, x_apoio |-> None, y_apoio |-> None]

\* xi_trecho: xi_local, plus the start of the span when vao_numero and linhas are given
XiTrechoSemInicio(viga_hospedeira, xi_local, vao_numero, lns) == xi_local
\* a variant that takes 1 as the start of a span it does not find
XiTrechoPadraoUm(viga_hospedeira, xi_local, vao_numero, lns) ==
    IF vao_numero # None /\ lns # None /\ Val(lns) # <<>>
    THEN LET geom == extrair_geometria_completa_viga(Val(lns), viga_hospedeira)
         IN  Get(geom.xi_acumulado_por_vao, Val(vao_numero), 1) + xi_local
    ELSE xi_local
XiTrecho(viga_hospedeira, xi_local, vao_numero, lns) ==
    IF vao_numero # None /\ lns # None /\ Val(lns) # <<>>
    THEN LET geom == extrair_geometria_completa_viga(Val(lns), viga_hospedeira)
         IN  Get(geom.xi_acumulado_por_vao, Val(vao_numero), 0) + xi_local
    ELSE xi_local

\* a variant whose comparison depends on whether a call has already returned
MenorDiferencaComMemoria(diferenca, menor_diferenca) ==
    \/ menor_diferenca = None
    \/ IF resultado = <<>> THEN diferenca < Val(menor_diferenca)
                           ELSE diferenca <= Val(menor_diferenca)

\* diferenca < menor_diferenca (None is float('inf'))
MenorDiferencaOuIgual(diferenca, menor_diferenca) ==
    menor_diferenca = None \/ diferenca <= Val(menor_diferenca)
MenorDiferenca(diferenca, menor_diferenca) ==
    menor_diferenca = None \/ diferenca < Val(menor_diferenca)

\* the loop over apoios_com_xi from index k: (melhor_apoio, menor_diferenca)
RECURSIVE EscolherApoio(_, _, _, _)
EscolherApoio(com_xi, xi_trecho, k, melhor) ==
    IF k > Len(com_xi) THEN melhor
    ELSE IF com_xi[k].xi_acumulado = None
         THEN EscolherApoio(com_xi, xi_trecho, k + 1, melhor)
         ELSE LET diferenca == Abs(Val(com_xi[k].xi_acumulado) - xi_trecho)
              IN  IF MenorDiferenca(diferenca, melhor.menor_diferenca)
                  THEN EscolherApoio(com_xi, xi_trecho, k + 1,
                         [melhor_apoio |-> Some(com_xi[k]),
                          menor_diferenca |-> Some(diferenca)])
                  ELSE EscolherApoio(com_xi, xi_trecho, k + 1, melhor)

\* largura_hospedeira / 2.0 if largura_hospedeira else None
MeiaLargura(geometrias, viga) ==
    LET largura == Get(geometrias, viga, 0)
    IN  IF largura # 0 THEN Some(DivExata(largura, 2)) ELSE None

\* without the test of coords (a missing polyline counts as an empty one)
SemCoordenadasNunca(coords) == FALSE
SemCoordenadas(coords) == coords = <<>>

determinar_viga_apoiada_espacial(viga_hospedeira, xi_local, mapeamento, geometrias, coords_vigas, vao_numero, lns) ==
    IF viga_hospedeira \notin DOMAIN mapeamento THEN Nenhum
    ELSE IF mapeamento[viga_hospedeira] = <<>> THEN Nenhum
    ELSE LET coords == Get(coords_vigas, viga_hospedeira, <<>>)
         IN  IF SemCoordenadas(coords) THEN Nenhum
             ELSE LET xi_trecho == XiTrecho(viga_hospedeira, xi_local, vao_numero, lns)
                      com_xi == calcular_xi_acumulado_apoios(mapeamento[viga_hospedeira],
                                                             coords)
                      melhor == EscolherApoio(com_xi, xi_trecho, 1,
                                   [melhor_apoio |-> None, menor_diferenca |-> None])
                  IN  IF melhor.melhor_apoio = None THEN Nenhum
                      ELSE [viga_apoiada |-> Some(Val(melhor.melhor_apoio).viga_apoiada),
                            a_cm |-> MeiaLargura(geometrias, viga_hospedeira),
                            x_apoio |-> Val(melhor.melhor_apoio).x,
                            y_apoio |-> Val(melhor.melhor_apoio).y]

\* the dict mapeamento_apoios of the caller after determinar_viga_apoiada_espacial:
\* the function reaches calcular_xi_acumulado_apoios with the list of the host
\* unless it has returned before, and writes to nothing else it was given
MapeamentoDepois(viga_hospedeira, mapeamento, coords_vigas) ==
    IF viga_hospedeira \notin DOMAIN mapeamento THEN mapeamento
    ELSE IF mapeamento[viga_hospedeira] = <<>> THEN mapeamento
    ELSE IF SemCoordenadas(Get(coords_vigas, viga_hospedeira, <<>>)) THEN mapeamento
    ELSE [mapeamento EXCEPT ![viga_hospedeira] =
             ApoiosDepois(@, Get(coords_vigas, viga_hospedeira, <<>>))]

---------------------------------------------------------------------------
(* relger.py: extrair_apoios_reac_apoio, encontrar_vigas_apoiadas_por_hospedeira, *)
(* validar_apoios_cruzado                                                         *)

\* membership in a Python list
NaLista(e, lista) == \E k \in 1..Len(lista) : lista[k] = e

\* the index of the entry of beam v in an insertion-ordered dict (0: no entry)
IndiceDe(dict, v) ==
    IF \E k \in 1..Len(dict) : dict[k].viga = v
    THEN CHOOSE k \in 1..Len(dict) : dict[k].viga = v
    ELSE 0

\* apoios_relger[v_atual].append(viga_apoiada), without duplicates
Registrar(dict, v_atual, viga_apoiada) ==
    LET k == IndiceDe(dict, v_atual)
    IN  IF k = 0 THEN Append(dict, [viga |-> v_atual, apoios |-> <<viga_apoiada>>])
        ELSE IF NaLista(viga_apoiada, dict[k].apoios) THEN dict
        ELSE [dict EXCEPT ![k].apoios = Append(@, viga_apoiada)]

\* extrair_apoios_reac_apoio from line k on: the dict {beam: [beams named in
\* its REAC. APOIO section]} as the list of its entries in insertion order
RECURSIVE extrair_apoios_de(_, _, _, _, _)
extrair_apoios_de(lns, k, apoios_relger, v_atual, em_reac_apoio) ==
    IF k > Len(lns) THEN apoios_relger
    ELSE IF TemViga(lns[k])
         THEN extrair_apoios_de(lns, k + 1, apoios_relger, extrair_ref_viga(lns[k]), FALSE)
    ELSE IF v_atual # None /\ lns[k].t = "reac"
         THEN extrair_apoios_de(lns, k + 1, apoios_relger, v_atual, TRUE)
    ELSE IF v_atual # None /\ em_reac_apoio
         THEN IF lns[k].t = "sep"
              THEN extrair_apoios_de(lns, k + 1, apoios_relger, v_atual, FALSE)
              ELSE IF lns[k].t = "apoio"
                   THEN extrair_apoios_de(lns, k + 1,
                          Registrar(apoios_relger, Val(v_atual), lns[k].viga),
                          v_atual, TRUE)
                   ELSE extrair_apoios_de(lns, k + 1, apoios_relger, v_atual, TRUE)
    ELSE extrair_apoios_de(lns, k + 1, apoios_relger, v_atual, em_reac_apoio)

extrair_apoios_reac_apoio(lns) == extrair_apoios_de(lns, 1, <<>>, None, FALSE)

\* aliases = [V<numero>, V<numero>-A, V<numero>-B]
Aliases(viga_hospedeira) ==
    <<Viga(viga_hospedeira.num), VigaSuf(viga_hospedeira.num, "A"),
      VigaSuf(viga_hospedeira.num, "B")>>

\* some alias of the host is in lista_apoios
ListaTemAlias(viga_hospedeira, lista_apoios) ==
    \E a \in 1..Len(Aliases(viga_hospedeira)) :
        NaLista(Aliases(viga_hospedeira)[a], lista_apoios)

\* the loop of encontrar_vigas_apoiadas_por_hospedeira over the dict entries
RECURSIVE VigasQueListam(_, _, _, _)
VigasQueListam(viga_hospedeira, apoios_relger, k, vigas_apoiadas) ==
    IF k > Len(apoios_relger) THEN vigas_apoiadas
    ELSE IF ListaTemAlias(viga_hospedeira, apoios_relger[k].apoios)
            /\ ~NaLista(apoios_relger[k].viga, vigas_apoiadas)
         THEN VigasQueListam(viga_hospedeira, apoios_relger, k + 1,
                             Append(vigas_apoiadas, apoios_relger[k].viga))
         ELSE VigasQueListam(viga_hospedeira, apoios_relger, k + 1, vigas_apoiadas)

encontrar_vigas_apoiadas_por_hospedeira(viga_hospedeira, lns) ==
    VigasQueListam(viga_hospedeira, extrair_apoios_reac_apoio(lns), 1, <<>>)

\* viga_hospedeira in apoios_relger.get(viga_apoiada, [])
Confirmado(viga_hospedeira, viga_apoiada, apoios_relger) ==
    LET k == IndiceDe(apoios_relger, viga_apoiada)
    IN  k # 0 /\ NaLista(viga_hospedeira, apoios_relger[k].apoios)

\* the inner loop of validar_apoios_cruzado: the confirmed supports of a host
RECURSIVE ApoiosValidados(_, _, _)
ApoiosValidados(viga_hospedeira, apoios_tqs, apoios_relger) ==
    IF apoios_tqs = <<>> THEN <<>>
    ELSE IF Confirmado(viga_hospedeira, Head(apoios_tqs).viga_apoiada, apoios_relger)
         THEN <<Head(apoios_tqs)>>
              \o ApoiosValidados(viga_hospedeira, Tail(apoios_tqs), apoios_relger)
         ELSE ApoiosValidados(viga_hospedeira, Tail(apoios_tqs), apoios_relger)

\* validar_apoios_cruzado: the hosts that keep a confirmed support, each with
\* its confirmed supports
validar_apoios_cruzado(mapeamento_tqs, apoios_relger) ==
    [h \in {g \in DOMAIN mapeamento_tqs :
                ApoiosValidados(g, mapeamento_tqs[g], apoios_relger) # <<>>} |->
        ApoiosValidados(h, mapeamento_tqs[h], apoios_relger)]

---------------------------------------------------------------------------
(* relger.py: mapear_colunas_cisalhamento, extrair_valores_por_posicao and *)
(* the record processar_relger builds for a row with AsTrt != 0            *)

ColunasInteresse == <<"Aswmin", "Asw[C+T]", "AsTrt", "AsSus">>

CabecalhoCompleto ==
    <<"Xi", "Xf", "Vsd", "VRd2", "MdC", "Ang.", "Asw[C]", "Aswmin", "Asw[C+T]", "Bit",
      "Esp", "NR", "AsTrt", "AsSus">>

\* lista.index(e), counted from 1
Posicao(e, lista) == CHOOSE k \in 1..Len(lista) : lista[k] = e /\ \A j \in 1..(k - 1) : lista[j] # e

\* 'CISALHAMENTO-' in linha and 'AsTrt' in linha
CabecalhoCisalhamento(linha) == linha.t = "cis" /\ NaLista("AsTrt", linha.colunas)

\* mapear_colunas_cisalhamento: the place of each column of interest in the
\* header, None unless all four are found
mapear_colunas_cisalhamento(linha_cabecalho) ==
    IF \A c \in 1..Len(ColunasInteresse) : NaLista(ColunasInteresse[c], linha_cabecalho.colunas)
    THEN Some([c \in {ColunasInteresse[k] : k \in 1..Len(ColunasInteresse)} |->
                 Posicao(c, linha_cabecalho.colunas)])
    ELSE None

\* get_token_value: the token at the column's index in cabecalho_completo,
\* 0.0 beyond the end of the row
get_token_value(tokens, mapa_cols, nome_col) ==
    IF nome_col \notin DOMAIN mapa_cols THEN 0
    ELSE LET idx == Posicao(nome_col, CabecalhoCompleto)
         IN  IF idx > Len(tokens) THEN 0 ELSE tokens[idx]

\* extrair_valores_por_posicao.  Only a row of numeric tokens yields values:
\* a line of another kind does not begin with a number (float() fails), and a
\* row of a REAC. APOIO section has too few tokens to hold AsTrt.
extrair_valores_por_posicao(linha_dados, mapa_cols) ==
    IF mapa_cols = None THEN None
    ELSE IF linha_dados.t # "dados" \/ linha_dados.tokens = <<>> THEN None
    ELSE LET tokens == linha_dados.tokens
             m == Val(mapa_cols)
         IN  Some([xi     |-> tokens[1],
                   aswmin |-> get_token_value(tokens, m, "Aswmin"),
                   asw_ct |-> get_token_value(tokens, m, "Asw[C+T]"),
                   astrt  |-> get_token_value(tokens, m, "AsTrt"),
                   assus  |-> get_token_value(tokens, m, "AsSus")])

\* a_cm = geometrias.get(v_atual); if a_cm: a_cm = a_cm / 2.0
MeiaLarguraDireta(geometrias, viga) ==
    IF viga \notin DOMAIN geometrias THEN None
    ELSE IF geometrias[viga] = 0 THEN Some(0)
    ELSE Some(DivExata(geometrias[viga], 2))

\* the first support of the list whose viga_apoiada is nome (None: there is none)
PrimeiroApoioDe(lista, nome) ==
    IF \E k \in 1..Len(lista) : lista[k].viga_apoiada = nome
    THEN Some(lista[CHOOSE k \in 1..Len(lista) :
                        /\ lista[k].viga_apoiada = nome
                        /\ \A j \in 1..(k - 1) : lista[j].viga_apoiada # nome])
    ELSE None

\* mapeamento_apoios and v_atual in mapeamento_apoios
TemMapeamento(mapeamento, viga) == mapeamento # <<>> /\ viga \in DOMAIN mapeamento

\* a variant of the branch that gives the candidate up when the mapping holds
\* no support for it
UmaCandidataSoNoMapeamento(v_atual, candidata, mapeamento, geometrias) ==
    IF TemMapeamento(mapeamento, v_atual)
       /\ PrimeiroApoioDe(mapeamento[v_atual], candidata) # None
    THEN [viga_apoiada |-> Some(candidata),
          a_cm    |-> MeiaLarguraDireta(geometrias, v_atual),
          x_apoio |-> Val(PrimeiroApoioDe(mapeamento[v_atual], candidata)).x,
          y_apoio |-> Val(PrimeiroApoioDe(mapeamento[v_atual], candidata)).y]
    ELSE Nenhum

\* the branch len(vigas_candidatas) == 1: the candidate is used directly, with
\* its coordinates when the mapping holds them
UmaCandidata(v_atual, candidata, mapeamento, geometrias) ==
    LET apoio == IF TemMapeamento(mapeamento, v_atual)
                 THEN PrimeiroApoioDe(mapeamento[v_atual], candidata)
                 ELSE None
    IN  [viga_apoiada |-> Some(candidata),
         a_cm    |-> MeiaLarguraDireta(geometrias, v_atual),
         x_apoio |-> IF apoio = None THEN None ELSE Val(apoio).x,
         y_apoio |-> IF apoio = None THEN None ELSE Val(apoio).y]

\* the branch len(vigas_candidatas) > 1: the spatial choice among the
\* supports of the geometry mapping
VariasCandidatas(v_atual, xi, mapeamento, geometrias, coords_vigas, vao, lns) ==
    IF TemMapeamento(mapeamento, v_atual)
    THEN determinar_viga_apoiada_espacial(v_atual, xi, mapeamento, geometrias,
                                          coords_vigas, vao, Some(lns))
    ELSE Nenhum

\* the search of the section of the supported beam: the first 'Viga=' line
\* that holds nome, then the first section line among the 10 lines from it
SecaoDaVigaApoiada(lns, nome) ==
    IF \E k \in 1..Len(lns) : ContemRef(lns[k], nome)
    THEN LET k   == CHOOSE k \in 1..Len(lns) :
                        ContemRef(lns[k], nome) /\ \A j \in 1..(k - 1) : ~ContemRef(lns[j], nome)
             idx == Posicao(lns[k], lns)
             J   == {j \in idx..Min2(idx + 9, Len(lns)) : TemSecao(lns[j])}
         IN  IF J = {} THEN None ELSE extrair_secao(lns[CHOOSE j \in J : \A m \in J : j <= m])
    ELSE None

\* the record appended for a row of v_atual with AsTrt != 0
Registro(v_atual, s_atual, vao_at, valores, lns, mapeamento, coords_vigas) ==
    LET geometrias == extrair_geometrias_vigas(lns)
        vigas_candidatas == encontrar_vigas_apoiadas_por_hospedeira(v_atual, lns)
        escolha == IF Len(vigas_candidatas) = 1
                   THEN UmaCandidata(v_atual, vigas_candidatas[1], mapeamento, geometrias)
                   ELSE IF Len(vigas_candidatas) > 1
                   THEN VariasCandidatas(v_atual, valores.xi, mapeamento, geometrias,
                                         coords_vigas, vao_at, lns)
                   ELSE Nenhum
    IN  [ref |-> v_atual, secao |-> s_atual,
         aswmin |-> valores.aswmin, asw_ct |-> valores.asw_ct,
         astrt |-> valores.astrt, assus |-> valores.assus,
         a_cm |-> escolha.a_cm, viga_apoiada |-> escolha.viga_apoiada,
         secao_viga_apoiada |-> IF escolha.viga_apoiada = None THEN None
                                ELSE SecaoDaVigaApoiada(lns, Val(escolha.viga_apoiada)),
         x_apoio |-> escolha.x_apoio, y_apoio |-> escolha.y_apoio]

---------------------------------------------------------------------------
(* Inputs of calcular_xi_acumulado_apoios *)

Coordenadas == 0..MaxCoord
Pontos == Coordenadas \X Coordenadas

\* consecutive nodes lie on a common grid line (a repeated node is allowed)
Alinhados(p, q) == p[1] = q[1] \/ p[2] = q[2]

\* the polylines of n nodes that start at the origin
RECURSIVE PolilinhasDe(_)
PolilinhasDe(n) ==
    IF n = 0 THEN {<<>>}
    ELSE IF n = 1 THEN {<< <<0, 0>> >>}
    ELSE UNION {{Append(c, q) : q \in {r \in Pontos : Alinhados(c[Len(c)], r)}} :
                    c \in PolilinhasDe(n - 1)}

Polilinhas == UNION {PolilinhasDe(n) : n \in 0..MaxNos}

\* a support of beam v at a grid point, or without coordinates
ApoiosDe(v) ==
    {[viga_apoiada |-> v, x |-> Some(p[1]), y |-> Some(p[2])] : p \in Pontos}
    \cup {[viga_apoiada |-> v, x |-> None, y |-> None]}

\* the lists of n supports; the k-th support is beam V<k+1>
ListasDeApoios(n) ==
    {l \in [1..n -> UNION {ApoiosDe(Viga(k + 1)) : k \in 1..n}] :
        \A k \in 1..n : l[k].viga_apoiada = Viga(k + 1)}

---------------------------------------------------------------------------
(* Specification SpecXi: one call of calcular_xi_acumulado_apoios *)

\* the variables a specification does not use
XiParado ==
    apoios = <<>> /\ coords_hospedeira = <<>> /\ apoios_com_xi = <<>> /\ escala = 1
EntradaParada == linhas = <<>> /\ mapeamento_apoios = <<>> /\ coords_hospedeiras = <<>>
EspParado == chamada = <<>> /\ resultado = <<>> /\ resultado_repetido = <<>>
LacoParado ==
    /\ i = 0 /\ viga_atual = None /\ secao_atual = None /\ vao_atual = None
    /\ mapa_colunas = None /\ procurar_dados_cisalhamento = FALSE
    /\ vigas_extraidas = <<>>
RelgerParado == LacoParado /\ dados = None
ValidarParado == mapeamento_validado = <<>>
CompletoParado ==
    /\ provedor = <<>> /\ json_gerado = FALSE /\ exibido = FALSE /\ sucesso = None
    /\ caminho_relger = None
MapearParado == todas_vigas = <<>> /\ mapeamento_vigas = None
MenuParado == arquivo_sessao = None /\ saida = None /\ limpou = None /\ adicionados = 0

InitXi ==
    /\ pc = "xi"
    /\ coords_hospedeira \in Polilinhas
    /\ apoios \in UNION {ListasDeApoios(n) : n \in 0..MaxApoiosXi}
    /\ apoios_com_xi = <<>>
    /\ escala = 1
    /\ EntradaParada /\ EspParado /\ RelgerParado /\ ValidarParado /\ CompletoParado /\ MapearParado
    /\ MenuParado

CalcularXi ==
    /\ pc = "xi"
    /\ apoios_com_xi' = calcular_xi_acumulado_apoios(apoios, coords_hospedeira)
    /\ apoios' = ApoiosDepois(apoios, coords_hospedeira)
    /\ pc' = "xi_feito"
    /\ UNCHANGED <<coords_hospedeira, escala, varsEntrada, varsEsp, varsRelger,
                   mapeamento_validado, varsCompleto, varsMapear, varsMenu>>

NextXi == CalcularXi

SpecXi == InitXi /\ [][NextXi]_vars

---------------------------------------------------------------------------
(* Specification SpecXiLongo: the call of SpecXi for one support on the     *)
(* polylines of MaxNos + 1 nodes, which can come back to one of their own   *)
(* segments                                                                 *)

InitXiLongo ==
    /\ pc = "xi"
    /\ coords_hospedeira \in PolilinhasDe(MaxNos + 1)
    /\ apoios \in ListasDeApoios(1)
    /\ apoios_com_xi = <<>>
    /\ escala = 1
    /\ EntradaParada /\ EspParado /\ RelgerParado /\ ValidarParado /\ CompletoParado /\ MapearParado
    /\ MenuParado

NextXiLongo == CalcularXi

SpecXiLongo == InitXiLongo /\ [][NextXiLongo]_vars

---------------------------------------------------------------------------
(* Specification SpecXiFino: the call of SpecXi on a grid of EscalaFina     *)
(* units per cm, where a segment of one unit is shorter than 0.01 cm and a  *)
(* segment of two units is not                                              *)

EscalaFina == 128

InitXiFino ==
    /\ pc = "xi"
    /\ coords_hospedeira \in Polilinhas
    /\ apoios \in UNION {ListasDeApoios(n) : n \in 0..MaxApoiosXi}
    /\ apoios_com_xi = <<>>
    /\ escala = EscalaFina
    /\ EntradaParada /\ EspParado /\ RelgerParado /\ ValidarParado /\ CompletoParado /\ MapearParado
    /\ MenuParado

NextXiFino == CalcularXi

SpecXiFino == InitXiFino /\ [][NextXiFino]_vars

---------------------------------------------------------------------------
(* Specification SpecEsp: calls of determinar_viga_apoiada_espacial for the *)
(* host V1, on a geometry mapping, node coordinates and a report            *)

Hospedeira == Viga(1)

\* the report of SpecEsp: the host with two spans; span 2 starts at xi 2
RelatorioEsp ==
    <<LinhaViga(Hospedeira), LinhaVao("1", 1, 1, 20, 50), LinhaVao("2", 2, 0, 20, 50)>>

\* the host polylines of SpecEsp: none, one node, a straight and a bent one
PolilinhasEsp ==
    {<<>>, << <<0, 0>> >>, << <<0, 0>>, <<MaxCoord, 0>> >>,
     << <<0, 0>>, <<MaxCoord, 0>>, <<MaxCoord, MaxCoord>> >>}

\* a dict with the one key chave
Dict1(chave, valor) == [c \in {chave} |-> valor]

MapeamentosEsp ==
    {<<>>} \cup {Dict1(Hospedeira, l) : l \in UNION {ListasDeApoios(n) : n \in 0..MaxApoios}}

CoordsEsp == {<<>>} \cup {Dict1(Hospedeira, c) : c \in PolilinhasEsp}

\* (vao_numero, linhas) as passed: the defaults, a span of the host, an unknown span
ArgumentosVao ==
    {[vao_numero |-> None, linhas |-> None],
     [vao_numero |-> Some("2"), linhas |-> None]}
    \cup {[vao_numero |-> Some(n), linhas |-> Some(RelatorioEsp)] : n \in {"1", "2", "3"}}

InitEsp ==
    /\ pc = "esp"
    /\ linhas = RelatorioEsp
    /\ mapeamento_apoios \in MapeamentosEsp
    /\ coords_hospedeiras \in CoordsEsp
    /\ chamada = <<>>
    /\ resultado = <<>>
    /\ resultado_repetido = <<>>
    /\ XiParado /\ RelgerParado /\ ValidarParado /\ CompletoParado /\ MapearParado
    /\ MenuParado

Determinar ==
    /\ pc = "esp"
    /\ \E xi_local \in 0..MaxCoord, a \in ArgumentosVao :
          /\ chamada' = [viga_hospedeira |-> Hospedeira, xi_local |-> xi_local,
                         vao_numero |-> a.vao_numero, linhas |-> a.linhas]
          /\ resultado' = determinar_viga_apoiada_espacial(
                             Hospedeira, xi_local, mapeamento_apoios,
                             extrair_geometrias_vigas(linhas), coords_hospedeiras,
                             a.vao_numero, a.linhas)
    /\ mapeamento_apoios' = MapeamentoDepois(Hospedeira, mapeamento_apoios, coords_hospedeiras)
    /\ pc' = "esp_feito"
    /\ UNCHANGED <<resultado_repetido, varsXi, linhas, coords_hospedeiras, varsRelger, mapeamento_validado, varsCompleto, varsMapear, varsMenu>>

NextEsp == Determinar

SpecEsp == InitEsp /\ [][NextEsp]_vars

---------------------------------------------------------------------------
(* Specification SpecRepetir: the call of SpecEsp made a second time with   *)
(* the same arguments, as processar_relger does for two rows with the same  *)
(* Xi in the same span; the function assigns to locals and to copies only,  *)
(* so the dicts and lists it was given are as they were before the call     *)

Repetir ==
    /\ pc = "esp_feito"
    /\ resultado_repetido' = determinar_viga_apoiada_espacial(
                                chamada.viga_hospedeira, chamada.xi_local,
                                mapeamento_apoios, extrair_geometrias_vigas(linhas),
                                coords_hospedeiras, chamada.vao_numero, chamada.linhas)
    /\ mapeamento_apoios' = MapeamentoDepois(chamada.viga_hospedeira, mapeamento_apoios, coords_hospedeiras)
    /\ pc' = "esp_repetido"
    /\ UNCHANGED <<chamada, resultado, varsXi, linhas, coords_hospedeiras, varsRelger, mapeamento_validado, varsCompleto, varsMapear, varsMenu>>

NextRepetir == Determinar \/ Repetir

SpecRepetir == InitEsp /\ [][NextRepetir]_vars

---------------------------------------------------------------------------
(* Specification SpecVao: determinar_viga_apoiada_espacial for a demand    *)
(* record in the second span of a host 20 long with a node at 10           *)

\* the report: the host with two spans, the first of them L + BCs = 10 long
RelatoriosVao ==
    {<<LinhaViga(Hospedeira), LinhaVao("1", 10 - bcs, bcs, 20, 50),
       LinhaVao("2", 10, 0, 20, 50)>> : bcs \in {0, 2, 4}}

\* the candidate at (15, 0) and a competitor anywhere along the host, on its
\* axis or beside it, in either order
MapeamentosVao ==
    UNION {{Dict1(Hospedeira, <<c, o>>), Dict1(Hospedeira, <<o, c>>)} :
              c \in {[viga_apoiada |-> Viga(2), x |-> Some(15), y |-> Some(0)]},
              o \in {[viga_apoiada |-> Viga(3), x |-> Some(px), y |-> Some(py)] :
                        px \in 0..20, py \in {0, 1}}}

InitVao ==
    /\ pc = "vao"
    /\ linhas \in RelatoriosVao
    /\ mapeamento_apoios \in MapeamentosVao
    /\ coords_hospedeiras = Dict1(Hospedeira, << <<0, 0>>, <<10, 0>>, <<20, 0>> >>)
    /\ XiParado /\ EspParado /\ RelgerParado /\ ValidarParado /\ CompletoParado
    /\ MapearParado
    /\ MenuParado

\* the call of processar_relger for a row with Xi = 5 under 'Vao= 2'
DeterminarNoVao ==
    /\ pc = "vao"
    /\ chamada' = [viga_hospedeira |-> Hospedeira, xi_local |-> 5,
                   vao_numero |-> Some("2"), linhas |-> Some(linhas)]
    /\ resultado' = determinar_viga_apoiada_espacial(
                       Hospedeira, 5, mapeamento_apoios,
                       extrair_geometrias_vigas(linhas), coords_hospedeiras,
                       Some("2"), Some(linhas))
    /\ mapeamento_apoios' = MapeamentoDepois(Hospedeira, mapeamento_apoios, coords_hospedeiras)
    /\ pc' = "vao_feito"
    /\ UNCHANGED <<resultado_repetido, varsXi, linhas, coords_hospedeiras, varsRelger,
                   mapeamento_validado, varsCompleto, varsMapear, varsMenu>>

NextVao == DeterminarNoVao

SpecVao == InitVao /\ [][NextVao]_vars

---------------------------------------------------------------------------
(* Specification SpecRelger: one call of processar_relger(caminho_arquivo, *)
(* mapeamento_apoios, coords_hospedeiras), line by line                    *)

\* a row of the shear table under the header of the standard layout
LinhaDados(xi, aswmin, asw_ct, astrt, assus) ==
    LinhaTokens([k \in 1..Len(CabecalhoCompleto) |->
        IF k = 1 THEN xi
        ELSE IF CabecalhoCompleto[k] = "Aswmin" THEN aswmin
        ELSE IF CabecalhoCompleto[k] = "Asw[C+T]" THEN asw_ct
        ELSE IF CabecalhoCompleto[k] = "AsTrt" THEN astrt
        ELSE IF CabecalhoCompleto[k] = "AsSus" THEN assus
        ELSE 0])

\* the block of the host: one span, a shear table with one row, a blank line
BlocoHospedeira(xi, astrt) ==
    <<LinhaViga(Hospedeira), LinhaVao("1", 2 * MaxCoord, 0, 20, 50),
      LinhaCis(CabecalhoCompleto), LinhaDados(xi, 1, 2, astrt, 3), LinhaBranco>>

\* the block of another beam: one span and a REAC. APOIO section
BlocoOutra(viga, lista_apoios) ==
    <<LinhaViga(viga), LinhaVao("1", 2, 0, 14, 40), LinhaReac>>
    \o [k \in 1..Len(lista_apoios) |-> LinhaApoio(lista_apoios[k])]
    \o <<LinhaSep>>

\* what the REAC. APOIO section of another beam may list: nothing, the host,
\* a suffix variant of the host
ListasReac == {<<>>, <<Hospedeira>>, <<VigaSuf(Hospedeira.num, "A")>>}

\* the blocks of the beams V2 .. V<n+1>, one REAC. APOIO list each
RECURSIVE BlocosOutras(_, _)
BlocosOutras(n, listas) ==
    IF n = 0 THEN <<>>
    ELSE BlocosOutras(n - 1, listas) \o BlocoOutra(Viga(n + 1), listas[n])

Relatorios ==
    {BlocoHospedeira(xi, astrt) \o BlocosOutras(NumOutras, listas) :
        xi \in {0, MaxCoord}, astrt \in {0, 5}, listas \in [1..NumOutras -> ListasReac]}

\* the supports of SpecRelger: at an end of the host, or without coordinates
ApoiosRelgerDe(v) ==
    {[viga_apoiada |-> v, x |-> Some(px), y |-> Some(0)] : px \in {0, MaxCoord}}
    \cup {[viga_apoiada |-> v, x |-> None, y |-> None]}

ListasDeApoiosRelger(n) ==
    {l \in [1..n -> UNION {ApoiosRelgerDe(Viga(k + 1)) : k \in 1..n}] :
        \A k \in 1..n : l[k].viga_apoiada = Viga(k + 1)}

MapeamentosRelger ==
    {<<>>} \cup {Dict1(Hospedeira, l) :
                    l \in UNION {ListasDeApoiosRelger(n) : n \in 0..MaxApoios}}

CoordsRelger == {<<>>, Dict1(Hospedeira, << <<0, 0>>, <<MaxCoord, 0>> >>)}

InitRelger ==
    /\ pc = "relger"
    /\ linhas \in Relatorios
    /\ mapeamento_apoios \in MapeamentosRelger
    /\ coords_hospedeiras \in CoordsRelger
    /\ XiParado /\ EspParado /\ RelgerParado /\ ValidarParado /\ CompletoParado /\ MapearParado
    /\ MenuParado

\* open(caminho_arquivo) and readlines() succeed
LerArquivo ==
    /\ pc = "relger"
    /\ pc' = "relger_laco"
    /\ i' = 1
    /\ UNCHANGED <<viga_atual, secao_atual, vao_atual, mapa_colunas,
                   procurar_dados_cisalhamento, vigas_extraidas, dados,
                   varsXi, varsEntrada, varsEsp, mapeamento_validado, varsCompleto, varsMapear, varsMenu>>

\* open(caminho_arquivo) raises: processar_relger returns None
FalhaAoLer ==
    /\ pc = "relger"
    /\ pc' = "relger_fim"
    /\ dados' = None
    /\ UNCHANGED <<varsLaco, varsXi, varsEntrada, varsEsp, mapeamento_validado, varsCompleto, varsMapear, varsMenu>>

\* linha.strip() != '' and not linha.strip().startswith('T O R C A O')
LinhaTemDados(linha) == linha.t # "branco" /\ linha.t # "torcao"

\* one iteration of the loop over the lines
ProcessarLinha ==
    /\ pc = "relger_laco"
    /\ i <= Len(linhas)
    /\ LET linha == linhas[i]
           viga  == IF TemViga(linha) THEN extrair_ref_viga(linha) ELSE viga_atual
           secao == IF TemSecao(linha) THEN extrair_secao(linha) ELSE secao_atual
       IN  /\ viga_atual' = viga
           /\ secao_atual' = secao
           /\ IF TemVao(linha)
              THEN /\ vao_atual' = Some(linha.numero)
                   /\ UNCHANGED <<mapa_colunas, procurar_dados_cisalhamento, vigas_extraidas>>
              ELSE IF CabecalhoCisalhamento(linha)
              THEN /\ mapa_colunas' = mapear_colunas_cisalhamento(linha)
                   /\ procurar_dados_cisalhamento' = TRUE
                   /\ UNCHANGED <<vao_atual, vigas_extraidas>>
              ELSE IF procurar_dados_cisalhamento /\ viga # None /\ secao # None
              THEN IF LinhaTemDados(linha)
                   THEN LET valores == extrair_valores_por_posicao(linha, mapa_colunas)
                        IN  /\ vigas_extraidas' =
                                 IF valores # None /\ Val(valores).astrt # 0
                                 THEN Append(vigas_extraidas,
                                        Registro(Val(viga), Val(secao), vao_atual,
                                                 Val(valores), linhas, mapeamento_apoios,
                                                 coords_hospedeiras))
                                 ELSE vigas_extraidas
                            /\ UNCHANGED <<vao_atual, mapa_colunas,
                                           procurar_dados_cisalhamento>>
                   ELSE /\ procurar_dados_cisalhamento' = FALSE
                        /\ UNCHANGED <<vao_atual, mapa_colunas, vigas_extraidas>>
              ELSE UNCHANGED <<vao_atual, mapa_colunas, procurar_dados_cisalhamento,
                               vigas_extraidas>>
    /\ i' = i + 1
    /\ UNCHANGED <<pc, dados, varsXi, varsEntrada, varsEsp, mapeamento_validado, varsCompleto, varsMapear, varsMenu>>

\* return vigas_extraidas
RetornarExtraidas ==
    /\ pc = "relger_laco"
    /\ i > Len(linhas)
    /\ dados' = Some(vigas_extraidas)
    /\ pc' = "relger_fim"
    /\ UNCHANGED <<varsLaco, varsXi, varsEntrada, varsEsp, mapeamento_validado, varsCompleto, varsMapear, varsMenu>>

NextRelger == LerArquivo \/ FalhaAoLer \/ ProcessarLinha \/ RetornarExtraidas

SpecRelger == InitRelger /\ [][NextRelger]_vars

---------------------------------------------------------------------------
(* Specification SpecLaco: the call of SpecRelger, without geometry         *)
(* mapping, on every sequence of MaxLinhas lines of six kinds               *)

MaxLinhas == 5

\* a beam header, a span line with its section, a shear header, a shear row
\* with AsTrt = 5, an empty line, the header of the torsion block
LinhasDoLaco ==
    {LinhaViga(Hospedeira), LinhaVao("1", 2 * MaxCoord, 0, 20, 50),
     LinhaCis(CabecalhoCompleto), LinhaDados(0, 1, 2, 5, 3), LinhaBranco, LinhaTorcao}

InitLaco ==
    /\ pc = "relger"
    /\ linhas \in [1..MaxLinhas -> LinhasDoLaco]
    /\ mapeamento_apoios = <<>>
    /\ coords_hospedeiras = <<>>
    /\ XiParado /\ EspParado /\ RelgerParado /\ ValidarParado /\ CompletoParado /\ MapearParado
    /\ MenuParado

SpecLaco == InitLaco /\ [][NextRelger]_vars

---------------------------------------------------------------------------
(* Specification SpecValidar: one call of validar_apoios_cruzado(          *)
(* mapeamento_tqs, apoios_relger), the relations read from a report        *)

\* the reports of SpecValidar: the host block and the REAC. APOIO lists
RelatoriosValidar ==
    {BlocoHospedeira(0, 5) \o BlocosOutras(NumOutras, listas) :
        listas \in [1..NumOutras -> ListasReac]}

\* the names under which the mapping may hold the host: bare or with a suffix
NomesDaHospedeira == {Hospedeira, VigaSuf(Hospedeira.num, "A")}

MapeamentosValidar ==
    {<<>>} \cup {Dict1(h, l) : h \in NomesDaHospedeira,
                    l \in UNION {ListasDeApoiosRelger(n) : n \in 1..MaxApoios}}

InitValidar ==
    /\ pc = "validar"
    /\ linhas \in RelatoriosValidar
    /\ mapeamento_apoios \in MapeamentosValidar
    /\ coords_hospedeiras = <<>>
    /\ XiParado /\ EspParado /\ RelgerParado /\ ValidarParado /\ CompletoParado /\ MapearParado
    /\ MenuParado

Validar ==
    /\ pc = "validar"
    /\ mapeamento_validado' =
          validar_apoios_cruzado(mapeamento_apoios, extrair_apoios_reac_apoio(linhas))
    /\ pc' = "validar_feito"
    /\ UNCHANGED <<varsXi, varsEntrada, varsEsp, varsRelger, varsCompleto, varsMapear, varsMenu>>

NextValidar == Validar

SpecValidar == InitValidar /\ [][NextValidar]_vars

---------------------------------------------------------------------------
(* Specification SpecQuadro: one call of calcular_xi_acumulado_apoios as in *)
(* SpecXi, or one call of determinar_viga_apoiada_espacial as in SpecEsp    *)

InitQuadro == InitXi \/ InitEsp

NextQuadro == CalcularXi \/ Determinar

SpecQuadro == InitQuadro /\ [][NextQuadro]_vars

---------------------------------------------------------------------------
(* main.py: main; relatorio_global.py: adicionar_relatorio,                 *)
(* limpar_json_relatorios. Specification SpecMenu: one session of the menu  *)
(* loop, the session file being None or the list of the beams of its reports *)

MaxRelatorios == 3

\* adicionar_relatorio returns True: the file is created if missing and the
\* report appended
adicionar_relatorio(arquivo, viga_ref) ==
    IF arquivo = None THEN Some(<<viga_ref>>) ELSE Some(Append(Val(arquivo), viga_ref))

\* for viga_ref, relatorio_texto in relatorios: adicionar_relatorio(...)
RECURSIVE AdicionarTodos(_, _, _)
AdicionarTodos(arquivo, relatorios, k) ==
    IF k > Len(relatorios) THEN arquivo
    ELSE AdicionarTodos(adicionar_relatorio(arquivo, relatorios[k]), relatorios, k + 1)

\* a variant that reports success and leaves the file where it is
limpar_sem_remover(arquivo, unlink_ok) == [arquivo |-> arquivo, retorno |-> TRUE]

\* limpar_json_relatorios: unlink the file if it exists; unlink_ok tells
\* whether unlink succeeds or raises
limpar_json_relatorios(arquivo, unlink_ok) ==
    IF arquivo # None
    THEN IF unlink_ok THEN [arquivo |-> None, retorno |-> TRUE]
         ELSE [arquivo |-> arquivo, retorno |-> FALSE]
    ELSE [arquivo |-> None, retorno |-> TRUE]

\* the session starts without the file, or with one left by an earlier session
InitMenu ==
    /\ pc = "menu"
    /\ arquivo_sessao \in {None, Some(<<Viga(1)>>)}
    /\ saida = None
    /\ limpou = None
    /\ adicionados = 0
    /\ XiParado /\ EntradaParada /\ EspParado /\ RelgerParado /\ ValidarParado
    /\ CompletoParado /\ MapearParado

NumRelatorios(arquivo) == IF arquivo = None THEN 0 ELSE Len(Val(arquivo))

\* option 3, answer S: every report of the verification is added
VerificarArmaduras ==
    /\ pc = "menu"
    /\ \E relatorios \in UNION {[1..n -> {Viga(1), Viga(2)}] : n \in 1..2} :
          /\ NumRelatorios(arquivo_sessao) + Len(relatorios) <= MaxRelatorios
          /\ arquivo_sessao' = AdicionarTodos(arquivo_sessao, relatorios, 1)
          /\ adicionados' = adicionados + Len(relatorios)
    /\ UNCHANGED <<pc, saida, limpou, varsXi, varsEntrada, varsEsp, varsRelger,
                   mapeamento_validado, varsCompleto, varsMapear>>

\* option 3: adicionar_relatorio catches an exception and returns False, after
\* inicializar_json_relatorios has created the file or before
FalhaAoAdicionar ==
    /\ pc = "menu"
    /\ \E criado \in BOOLEAN :
          arquivo_sessao' = IF arquivo_sessao = None /\ criado THEN Some(<<>>)
                            ELSE arquivo_sessao
    /\ UNCHANGED <<pc, saida, limpou, adicionados, varsXi, varsEntrada, varsEsp, varsRelger,
                   mapeamento_validado, varsCompleto, varsMapear>>

\* options 1, 2, 4, 5, an invalid option, an exception caught in the loop:
\* back to the menu
OutraOpcao ==
    /\ pc = "menu"
    /\ UNCHANGED vars

\* option 0: limpar_json_relatorios(); sys.exit(0)
SairPelaOpcao0 ==
    /\ pc = "menu"
    /\ \E unlink_ok \in BOOLEAN :
          /\ arquivo_sessao' = limpar_json_relatorios(arquivo_sessao, unlink_ok).arquivo
          /\ limpou' = Some(limpar_json_relatorios(arquivo_sessao, unlink_ok).retorno)
    /\ saida' = Some("opcao0")
    /\ pc' = "menu_finally"
    /\ UNCHANGED <<adicionados, varsXi, varsEntrada, varsEsp, varsRelger,
                   mapeamento_validado, varsCompleto, varsMapear>>

\* except KeyboardInterrupt: limpar_json_relatorios(); sys.exit(0)
Interromper ==
    /\ pc = "menu"
    /\ \E unlink_ok \in BOOLEAN :
          /\ arquivo_sessao' = limpar_json_relatorios(arquivo_sessao, unlink_ok).arquivo
          /\ limpou' = Some(limpar_json_relatorios(arquivo_sessao, unlink_ok).retorno)
    /\ saida' = Some("interrupcao")
    /\ pc' = "menu_finally"
    /\ UNCHANGED <<adicionados, varsXi, varsEntrada, varsEsp, varsRelger,
                   mapeamento_validado, varsCompleto, varsMapear>>

\* an exception outside the inner try, or inside one of its handlers
ErroEscapa ==
    /\ pc = "menu"
    /\ saida' = Some("erro")
    /\ pc' = "menu_finally"
    /\ UNCHANGED <<arquivo_sessao, limpou, adicionados, varsXi, varsEntrada, varsEsp,
                   varsRelger, mapeamento_validado, varsCompleto, varsMapear>>

\* finally: limpar_json_relatorios()
LimparNoFinally ==
    /\ pc = "menu_finally"
    /\ \E unlink_ok \in BOOLEAN :
          /\ arquivo_sessao' = limpar_json_relatorios(arquivo_sessao, unlink_ok).arquivo
          /\ limpou' = Some(limpar_json_relatorios(arquivo_sessao, unlink_ok).retorno)
    /\ pc' = "menu_fim"
    /\ UNCHANGED <<saida, adicionados, varsXi, varsEntrada, varsEsp, varsRelger,
                   mapeamento_validado, varsCompleto, varsMapear>>

NextMenu ==
    \/ VerificarArmaduras \/ FalhaAoAdicionar \/ OutraOpcao
    \/ SairPelaOpcao0 \/ Interromper \/ ErroEscapa \/ LimparNoFinally

SpecMenu == InitMenu /\ [][NextMenu]_vars

---------------------------------------------------------------------------
(* Specification SpecGeometria: one call of                                 *)
(* extrair_geometria_completa_viga(linhas, ref_viga) for the host V1 on a   *)
(* report of two beam blocks, the other beam being V2 or V12                *)

\* the 'Vao=' lines of a block: span 1, or spans 1 and 2, of any L and BCs
VaosDoBloco ==
    {<<LinhaVao("1", L1, BCs1, 20, 50)>> : L1 \in 1..2, BCs1 \in 0..1}
    \cup {<<LinhaVao("1", L1, BCs1, 20, 50), LinhaVao("2", L2, BCs2, 20, 50)>> :
             L1 \in 1..2, BCs1 \in 0..1, L2 \in 1..2, BCs2 \in 0..1}

RelatoriosGeometria ==
    UNION {{<<LinhaViga(Hospedeira)>> \o vh \o <<LinhaViga(outra)>> \o vo,
            <<LinhaViga(outra)>> \o vo \o <<LinhaViga(Hospedeira)>> \o vh} :
              outra \in {Viga(2), Viga(12)}, vh \in VaosDoBloco, vo \in VaosDoBloco}

InitGeometria ==
    /\ pc = "geometria"
    /\ linhas \in RelatoriosGeometria
    /\ mapeamento_apoios = <<>>
    /\ coords_hospedeiras = <<>>
    /\ XiParado /\ EspParado /\ RelgerParado /\ ValidarParado /\ CompletoParado /\ MapearParado
    /\ MenuParado

ExtrairGeometria ==
    /\ pc = "geometria"
    /\ chamada' = [ref_viga |-> Hospedeira]
    /\ resultado' = extrair_geometria_completa_viga(linhas, Hospedeira)
    /\ pc' = "geometria_feita"
    /\ UNCHANGED <<resultado_repetido, varsXi, varsEntrada, varsRelger, mapeamento_validado, varsCompleto, varsMapear, varsMenu>>

NextGeometria == ExtrairGeometria

SpecGeometria == InitGeometria /\ [][NextGeometria]_vars

---------------------------------------------------------------------------
(* Specification SpecEncontrar: one call of                                 *)
(* encontrar_vigas_apoiadas_por_hospedeira(viga_hospedeira, linhas) on a    *)
(* report of NumBlocos beam blocks with one REAC. APOIO section each        *)

NumBlocos == 3

\* the titles of the blocks: the host, a piece of the host, other beams
TitulosEncontrar == {Hospedeira, VigaSuf(Hospedeira.num, "A"), Viga(2), Viga(3)}

\* what a REAC. APOIO section may list
ListasEncontrar == {<<>>, <<Hospedeira>>, <<VigaSuf(Hospedeira.num, "B")>>, <<Viga(2)>>}

RECURSIVE BlocosEncontrar(_, _, _)
BlocosEncontrar(n, titulos, listas) ==
    IF n = 0 THEN <<>>
    ELSE BlocosEncontrar(n - 1, titulos, listas) \o BlocoOutra(titulos[n], listas[n])

RelatoriosEncontrar ==
    {BlocosEncontrar(NumBlocos, titulos, listas) :
        titulos \in [1..NumBlocos -> TitulosEncontrar],
        listas \in [1..NumBlocos -> ListasEncontrar]}

InitEncontrar ==
    /\ pc = "encontrar"
    /\ linhas \in RelatoriosEncontrar
    /\ mapeamento_apoios = <<>>
    /\ coords_hospedeiras = <<>>
    /\ XiParado /\ EspParado /\ RelgerParado /\ ValidarParado /\ CompletoParado /\ MapearParado
    /\ MenuParado

Encontrar ==
    /\ pc = "encontrar"
    /\ chamada' = [viga_hospedeira |-> Hospedeira]
    /\ resultado' = encontrar_vigas_apoiadas_por_hospedeira(Hospedeira, linhas)
    /\ pc' = "encontrar_feito"
    /\ UNCHANGED <<resultado_repetido, varsXi, varsEntrada, varsRelger, mapeamento_validado, varsCompleto, varsMapear, varsMenu>>

NextEncontrar == Encontrar

SpecEncontrar == InitEncontrar /\ [][NextEncontrar]_vars

---------------------------------------------------------------------------
(* Specification Spec: one run of processar_relger_completo                *)

\* mapear_apoios_vigas raised (the TQS model cannot be opened, a beam cannot
\* be read)
ProvedorFalhou == [falhou |-> TRUE, mapeamento |-> <<>>]

\* mapear_apoios_vigas returned mapeamento, the insertion-ordered dict
\* {ident: {viga_hospedeira, x, y, morre}}
ProvedorRetornou(mapeamento) == [falhou |-> FALSE, mapeamento |-> mapeamento]

\* mapeamento[identA] = {'viga_hospedeira': identB, 'x': xp, 'y': yp, 'morre': morre}
EntradaDoProvedor(identA, identB, xp, yp, morre) ==
    [ident |-> identA, viga_hospedeira |-> identB, x |-> xp, y |-> yp, morre |-> morre]

\* the dicts the provider may return: the beams V2 .. V<n+1> resting on the
\* host at one of its ends, for every n up to NumOutras
RECURSIVE MapeamentosDoProvedorDe(_)
MapeamentosDoProvedorDe(n) ==
    IF n = 0 THEN {<<>>}
    ELSE {Append(m, EntradaDoProvedor(Viga(n + 1), Hospedeira, px, 0, 0)) :
             m \in MapeamentosDoProvedorDe(n - 1), px \in {0, MaxCoord}}

Provedores ==
    {ProvedorFalhou}
    \cup {ProvedorRetornou(m) :
             m \in UNION {MapeamentosDoProvedorDe(n) : n \in 0..NumOutras}}

\* mapeamento_tqs, coordenadas_vigas = <dict>: iterating a dict yields its
\* keys, so the two targets receive the two keys when there are exactly two
\* and the assignment raises ValueError otherwise (None)
Desempacotar(dict) ==
    IF Len(dict) = 2 THEN Some(<<dict[1].ident, dict[2].ident>>) ELSE None

\* hasattr(valor, 'items'): a dict has items(), a beam identifier (a str) has not
TemItems(valor) == DOMAIN valor # {"num", "suf"}

\* return {}, {}
MapeamentoVazio == [mapeamento_final |-> <<>>, coordenadas_vigas |-> <<>>]

\* carregar_mapeamento_apoios with the report file readable: every exception
\* of the try block ends in `return {}, {}`; the loops that build coords_tqs
\* and mapeamento_final run only over a mapeamento_tqs that has items()
carregar_mapeamento_apoios(prov) ==
    IF prov.falhou THEN MapeamentoVazio
    ELSE LET par == Desempacotar(prov.mapeamento)
         IN  IF par = None THEN MapeamentoVazio
             ELSE IF ~TemItems(Val(par)[1]) THEN MapeamentoVazio
             ELSE [mapeamento_final |-> Val(par)[1], coordenadas_vigas |-> Val(par)[2]]

Init ==
    /\ pc = "selecionar"
    /\ linhas \in Relatorios
    /\ provedor \in Provedores
    /\ mapeamento_apoios = <<>>
    /\ coords_hospedeiras = <<>>
    /\ json_gerado = FALSE /\ exibido = FALSE /\ sucesso = None
    /\ caminho_relger = None
    /\ XiParado /\ EspParado /\ RelgerParado /\ ValidarParado /\ MapearParado
    /\ MenuParado

\* selecionar_pasta_pavimento returns the path of RELGER.LST
SelecionarPasta ==
    /\ pc = "selecionar"
    /\ caminho_relger' = Some("VIGAS/RELGER.LST")
    /\ pc' = "carregar"
    /\ UNCHANGED <<varsXi, varsEntrada, varsEsp, varsRelger, mapeamento_validado,
                   provedor, json_gerado, exibido, sucesso, varsMapear, varsMenu>>

\* no folder chosen, or no VIGAS/RELGER.LST in it: return False
SemPasta ==
    /\ pc = "selecionar"
    /\ pc' = "completo_fim"
    /\ sucesso' = Some(FALSE)
    /\ UNCHANGED <<varsXi, varsEntrada, varsEsp, varsRelger, mapeamento_validado,
                   provedor, json_gerado, exibido, caminho_relger, varsMapear, varsMenu>>

\* mapeamento_apoios, coords_hospedeiras = carregar_mapeamento_apoios(pasta_pavimento)
CarregarMapeamento ==
    /\ pc = "carregar"
    /\ mapeamento_apoios' = carregar_mapeamento_apoios(provedor).mapeamento_final
    /\ coords_hospedeiras' = carregar_mapeamento_apoios(provedor).coordenadas_vigas
    /\ pc' = "relger"
    /\ UNCHANGED <<linhas, varsXi, varsEsp, varsRelger, mapeamento_validado, varsCompleto, varsMapear, varsMenu>>

\* if dados is None: return False
SemDados ==
    /\ pc = "relger_fim"
    /\ dados = None
    /\ sucesso = None
    /\ provedor # <<>>
    /\ pc' = "completo_fim"
    /\ sucesso' = Some(FALSE)
    /\ UNCHANGED <<varsXi, varsEntrada, varsEsp, varsRelger, mapeamento_validado,
                   provedor, json_gerado, exibido, caminho_relger, varsMapear, varsMenu>>

\* a variant that goes on to gerar_json whatever processar_relger returned
GerarJsonSemTeste ==
    /\ pc = "relger_fim"
    /\ provedor # <<>>
    /\ json_gerado' = TRUE
    /\ pc' = "exibir"
    /\ UNCHANGED <<varsXi, varsEntrada, varsEsp, varsRelger, mapeamento_validado,
                   provedor, exibido, sucesso, caminho_relger, varsMapear, varsMenu>>

\* gerar_json writes vigas_suspensao.json and returns its path
GerarJson ==
    /\ pc = "relger_fim"
    /\ dados # None
    /\ provedor # <<>>
    /\ json_gerado' = TRUE
    /\ pc' = "exibir"
    /\ UNCHANGED <<varsXi, varsEntrada, varsEsp, varsRelger, mapeamento_validado,
                   provedor, exibido, sucesso, caminho_relger, varsMapear, varsMenu>>

\* gerar_json cannot write the file and returns None: return False
FalhaAoGerarJson ==
    /\ pc = "relger_fim"
    /\ dados # None
    /\ provedor # <<>>
    /\ pc' = "completo_fim"
    /\ sucesso' = Some(FALSE)
    /\ UNCHANGED <<varsXi, varsEntrada, varsEsp, varsRelger, mapeamento_validado,
                   provedor, json_gerado, exibido, caminho_relger, varsMapear, varsMenu>>

\* exibir_dados(dados); return True
ExibirDados ==
    /\ pc = "exibir"
    /\ exibido' = TRUE
    /\ sucesso' = Some(TRUE)
    /\ pc' = "completo_fim"
    /\ UNCHANGED <<varsXi, varsEntrada, varsEsp, varsRelger, mapeamento_validado,
                   provedor, json_gerado, caminho_relger, varsMapear, varsMenu>>

Next ==
    \/ SelecionarPasta \/ SemPasta \/ CarregarMapeamento
    \/ LerArquivo \/ FalhaAoLer \/ ProcessarLinha \/ RetornarExtraidas
    \/ SemDados \/ GerarJson \/ FalhaAoGerarJson \/ ExibirDados

Spec == Init /\ [][Next]_vars

---------------------------------------------------------------------------
(* Geometry used to state the claims about calcular_xi_acumulado_apoios *)

\* twice DIST_TOL_CM = 0.5, the membership tolerance
DobroDistTol == 1

Sinal(a) == IF a > 0 THEN 1 ELSE IF a < 0 THEN -1 ELSE 0

\* the grid points of the axis-parallel segment p1-p2
PontosDoSegmento(p1, p2) ==
    {q \in Pontos : /\ Min2(p1[1], p2[1]) <= q[1] /\ q[1] <= Max2(p1[1], p2[1])
                    /\ Min2(p1[2], p2[2]) <= q[2] /\ q[2] <= Max2(p1[2], p2[2])}

MenorDe(S) == CHOOSE m \in S : \A n \in S : m <= n

\* the squared distance from pt to the segment p1-p2 (its nearest point is a grid point)
Dist2AoSegmento(pt, p1, p2) == MenorDe({Len2Seg(pt, q) : q \in PontosDoSegmento(p1, p2)})

\* the distance from pt to every segment of coords exceeds the tolerance
ForaDaTolerancia(pt, coords) ==
    \A s \in 1..(Len(coords) - 1) :
        4 * Dist2AoSegmento(pt, coords[s], coords[s + 1]) > Quadrado(DobroDistTol)

Comprimento(coords) == xi_nos(coords)[Len(coords)]

\* the point placed at arc-length p on segment s of coords, xi_nos[s] <= p <= xi_nos[s+1]
PontoNoSegmentoEm(coords, s, p) ==
    LET d == p - xi_nos(coords)[s]
    IN  <<coords[s][1] + d * Sinal(coords[s + 1][1] - coords[s][1]),
          coords[s][2] + d * Sinal(coords[s + 1][2] - coords[s][2])>>

\* the arc-length positions 0..L at which the polyline passes through pt
PosicoesDe(coords, pt) ==
    {p \in 0..Comprimento(coords) :
        \E s \in 1..(Len(coords) - 1) :
            /\ xi_nos(coords)[s] <= p /\ p <= xi_nos(coords)[s + 1]
            /\ PontoNoSegmentoEm(coords, s, p) = pt}

NosConsecutivosDistintos(coords) ==
    /\ Len(coords) >= 2
    /\ \A s \in 1..(Len(coords) - 1) : coords[s] # coords[s + 1]

\* the polyline does not bend back on, touch or cross itself
PolilinhaSimples(coords) ==
    \A pt \in Pontos : Cardinality(PosicoesDe(coords, pt)) <= 1

TemCoordenadas(apoio) == apoio.x # None /\ apoio.y # None
PontoDe(apoio) == <<Val(apoio.x), Val(apoio.y)>>

---------------------------------------------------------------------------
(* Specification SpecCis: one shear header through                         *)
(* mapear_colunas_cisalhamento and one data row under it through           *)
(* extrair_valores_por_posicao                                             *)

\* the header with the columns at places j and k exchanged
Trocar(cab, j, k) ==
    [n \in 1..Len(cab) |-> IF n = j THEN cab[k] ELSE IF n = k THEN cab[j] ELSE cab[n]]

\* the header without the column at place k
Retirar(cab, k) == SubSeq(cab, 1, k - 1) \o SubSeq(cab, k + 1, Len(cab))

\* the layouts of an export: the standard one, two columns after Xi
\* exchanged, one column after Xi left out
Cabecalhos ==
    {CabecalhoCompleto}
    \cup {Trocar(CabecalhoCompleto, j, k) :
             j \in 2..Len(CabecalhoCompleto), k \in 2..Len(CabecalhoCompleto)}
    \cup {Retirar(CabecalhoCompleto, k) : k \in 2..Len(CabecalhoCompleto)}

\* the data row printed under the header cab: under each column a value that
\* tells the columns apart, the last token left off when curta
LinhaSob(cab, base, curta) ==
    LinhaTokens([n \in 1..(IF curta THEN Len(cab) - 1 ELSE Len(cab)) |->
                    base + Posicao(cab[n], CabecalhoCompleto)])

InitCis ==
    /\ pc = "cis"
    /\ \E cab \in Cabecalhos, base \in {0, 100}, curta \in BOOLEAN :
          linhas = <<LinhaCis(cab), LinhaSob(cab, base, curta)>>
    /\ mapeamento_apoios = <<>> /\ coords_hospedeiras = <<>>
    /\ XiParado /\ EspParado /\ RelgerParado /\ ValidarParado /\ CompletoParado
    /\ MapearParado
    /\ MenuParado

\* mapa_colunas = mapear_colunas_cisalhamento(linha)
MapearColunas ==
    /\ pc = "cis"
    /\ mapa_colunas' = mapear_colunas_cisalhamento(linhas[1])
    /\ pc' = "cis_mapeado"
    /\ UNCHANGED <<i, viga_atual, secao_atual, vao_atual, procurar_dados_cisalhamento,
                   vigas_extraidas, dados, varsXi, varsEntrada, varsEsp,
                   mapeamento_validado, varsCompleto, varsMapear, varsMenu>>

\* dados = extrair_valores_por_posicao(linha, mapa_colunas)
ExtrairValores ==
    /\ pc = "cis_mapeado"
    /\ dados' = extrair_valores_por_posicao(linhas[2], mapa_colunas)
    /\ pc' = "cis_feito"
    /\ UNCHANGED <<varsLaco, varsXi, varsEntrada, varsEsp, mapeamento_validado,
                   varsCompleto, varsMapear, varsMenu>>

NextCis == MapearColunas \/ ExtrairValores

SpecCis == InitCis /\ [][NextCis]_vars

---------------------------------------------------------------------------
(* nodes_vigas_tqs.py: ponto_no_segmento, classifica_morre_no_segmento,    *)
(* segmentos_da_viga and mapear_apoios_vigas                               *)

\* the numerator of the unclamped projection fraction of pt on p1-p2
ProdutoEscalar(pt, p1, p2) ==
    (pt[1] - p1[1]) * (p2[1] - p1[1]) + (pt[2] - p1[2]) * (p2[2] - p1[2])

\* NO_END_TOL_CM = 1.0, the distance to a beam end below which morre is 0
NoEndTol == 1

\* TQSGeo.Projection(x1, y1, x2, y2, xp, yp): the perpendicular foot of the
\* point on the line through p1 and p2
Projection(p1, p2, pt) ==
    <<p1[1] + DivExata(ProdutoEscalar(pt, p1, p2) * (p2[1] - p1[1]), Len2Seg(p1, p2)),
      p1[2] + DivExata(ProdutoEscalar(pt, p1, p2) * (p2[2] - p1[2]), Len2Seg(p1, p2))>>

\* TQSGeo.PointInSegment(xproj, yproj, x1, y1, x2, y2): a point of the line
\* through p1 and p2 lies between p1 and p2
PointInSegment(proj, p1, p2) ==
    /\ Min2(p1[1], p2[1]) <= proj[1] /\ proj[1] <= Max2(p1[1], p2[1])
    /\ Min2(p1[2], p2[2]) <= proj[2] /\ proj[2] <= Max2(p1[2], p2[2])

\* ponto_no_segmento(xp, yp, x1, y1, x2, y2): (pertence, xproj, yproj), with
\* dist <= tol compared on the squares
ponto_no_segmento(pt, p1, p2) ==
    LET proj == Projection(p1, p2, pt)
    IN  [pertence |-> /\ PointInSegment(proj, p1, p2)
                      /\ 4 * Len2Seg(pt, proj) <= Quadrado(DobroDistTol),
         xproj |-> proj[1], yproj |-> proj[2]]

\* a variant that takes every node of the beam, the ends of its segments, as an end
classifica_morre_por_nos(pt, coords) ==
    ~\E k \in 1..Len(coords) : Len2Seg(pt, coords[k]) <= Quadrado(NoEndTol)

\* classifica_morre_no_segmento(xp, yp, coords): the point is farther than
\* end_tol from both ends of the whole beam
classifica_morre_no_segmento(pt, coords) ==
    ~(\/ Len2Seg(pt, coords[1]) <= Quadrado(NoEndTol)
      \/ Len2Seg(pt, coords[Len(coords)]) <= Quadrado(NoEndTol))

\* a node of a beam of the TQS model: node.nodeX, node.nodeY, node.crossingType
No(x, y, tipo) == [nodeX |-> x, nodeY |-> y, crossingType |-> tipo]

\* an entry of todas_vigas; the object beam is identified by its place in
\* todas_vigas
ItemViga(ident, nos) == [ident |-> ident, nos |-> nos]

\* segmentos_da_viga(beam): coords, the coordinates of the nodes
CoordsDaViga(item) == [k \in 1..Len(item.nos) |-> <<item.nos[k].nodeX, item.nos[k].nodeY>>]

\* some segment of coords holds pt: the loop over itemB['segs'] reaches ok
AlgumSegmentoContem(pt, coords) ==
    \E s \in 1..(Len(coords) - 1) : ponto_no_segmento(pt, coords[s], coords[s + 1]).pertence

\* identA in mapeamento
NoMapeamento(dict, identA) == \E k \in 1..Len(dict) : dict[k].ident = identA

\* mapeamento[identA] = entrada, on the insertion-ordered dict
Atribuir(dict, entrada) ==
    IF NoMapeamento(dict, entrada.ident)
    THEN [k \in 1..Len(dict) |-> IF dict[k].ident = entrada.ident THEN entrada ELSE dict[k]]
    ELSE Append(dict, entrada)

\* the loop `for itemB in todas_vigas` for the node pt of beam a, from beam b on
RECURSIVE DescobrirHospedeira(_, _, _, _, _)
DescobrirHospedeira(vigas, a, pt, b, dict) ==
    IF b > Len(vigas) THEN dict
    ELSE IF b = a THEN DescobrirHospedeira(vigas, a, pt, b + 1, dict)
    ELSE LET coordsB == CoordsDaViga(vigas[b])
             morre   == IF classifica_morre_no_segmento(pt, coordsB) THEN 2 ELSE 0
             depois  == IF AlgumSegmentoContem(pt, coordsB)
                        THEN Atribuir(dict, EntradaDoProvedor(vigas[a].ident,
                                        vigas[b].ident, pt[1], pt[2], morre))
                        ELSE dict
         IN  IF NoMapeamento(depois, vigas[a].ident) THEN depois
             ELSE DescobrirHospedeira(vigas, a, pt, b + 1, depois)

\* the loop `for ino in range(nA)` of beam a, from node ino on
RECURSIVE PercorrerNos(_, _, _, _)
PercorrerNos(vigas, a, ino, dict) ==
    IF ino > Len(vigas[a].nos) THEN dict
    ELSE PercorrerNos(vigas, a, ino + 1,
            DescobrirHospedeira(vigas, a, CoordsDaViga(vigas[a])[ino], 1, dict))

\* the loop `for itemA in todas_vigas`, from beam a on
RECURSIVE PercorrerVigas(_, _, _)
PercorrerVigas(vigas, a, dict) ==
    IF a > Len(vigas) THEN dict
    ELSE PercorrerVigas(vigas, a + 1, PercorrerNos(vigas, a, 1, dict))

\* mapear_apoios_vigas once the floor is open: the dict mapeamento
mapear_apoios_vigas(vigas) == PercorrerVigas(vigas, 1, <<>>)

---------------------------------------------------------------------------
(* Specification SpecMapear: one call of mapear_apoios_vigas on a floor of *)
(* three beams                                                             *)

\* the values of node.crossingType
TiposDeCruzamento == {"INDEFINIDO", "RECEBE", "CRUZAMENTO", "APOIAVIGA", "APOIAPILAR", "N"}

\* two fixed beams along opposite sides of the grid, their nodes marked RECEBE
VigaDeBaixo ==
    ItemViga(Viga(1), <<No(0, 0, "RECEBE"), No(MaxCoord, 0, "RECEBE")>>)
VigaDeCima ==
    ItemViga(Viga(2), <<No(0, MaxCoord, "RECEBE"), No(MaxCoord, MaxCoord, "RECEBE")>>)

\* the third beam: two distinct aligned nodes anywhere on the grid, the first
\* of any crossing type, the second marked APOIAVIGA or neutral
VigasLivres ==
    {ItemViga(Viga(3), <<No(p[1], p[2], t1), No(q[1], q[2], t2)>>) :
        p \in Pontos, q \in Pontos, t1 \in TiposDeCruzamento, t2 \in {"APOIAVIGA", "N"}}

\* the orders in which the iterator may deliver the three beams
Pavimentos ==
    {f \in UNION {{<<a, VigaDeBaixo, VigaDeCima>>, <<VigaDeBaixo, a, VigaDeCima>>,
                   <<VigaDeBaixo, VigaDeCima, a>>, <<VigaDeCima, VigaDeBaixo, a>>} :
                     a \in VigasLivres} :
        /\ Alinhados(CoordsDaViga(f[1])[1], CoordsDaViga(f[1])[2])
        /\ Alinhados(CoordsDaViga(f[2])[1], CoordsDaViga(f[2])[2])
        /\ Alinhados(CoordsDaViga(f[3])[1], CoordsDaViga(f[3])[2])
        /\ \A k \in 1..3 : NosConsecutivosDistintos(CoordsDaViga(f[k]))}

InitMapear ==
    /\ pc = "mapear"
    /\ todas_vigas \in Pavimentos
    /\ mapeamento_vigas = None
    /\ XiParado /\ EntradaParada /\ EspParado /\ RelgerParado /\ ValidarParado
    /\ CompletoParado
    /\ MenuParado

\* the building and the floor open: the dict is built and returned
MapearApoios ==
    /\ pc = "mapear"
    /\ mapeamento_vigas' = Some(mapear_apoios_vigas(todas_vigas))
    /\ pc' = "mapear_feito"
    /\ UNCHANGED <<todas_vigas, varsXi, varsEntrada, varsEsp, varsRelger,
                   mapeamento_validado, varsCompleto, varsMenu>>

\* the building or the floor cannot be opened: raise RuntimeError
FalhaAoAbrirModelo ==
    /\ pc = "mapear"
    /\ pc' = "mapear_falhou"
    /\ UNCHANGED <<varsMapear, varsMenu, varsXi, varsEntrada, varsEsp, varsRelger,
                   mapeamento_validado, varsCompleto>>

NextMapear == MapearApoios \/ FalhaAoAbrirModelo

SpecMapear == InitMapear /\ [][NextMapear]_vars

---------------------------------------------------------------------------
(* Specification SpecMapearDobrada: the call of SpecMapear on a floor with  *)
(* a beam of two segments and a second beam object, which may carry the     *)
(* title of the first                                                       *)

\* a beam along two sides of the grid; its corner is away from both its ends
VigaDobrada ==
    ItemViga(Viga(1), <<No(0, 0, "RECEBE"), No(MaxCoord, 0, "RECEBE"),
                        No(MaxCoord, MaxCoord, "RECEBE")>>)

\* the other beam object: two distinct aligned nodes anywhere on the grid
OutrasVigas ==
    {ItemViga(v, <<No(pq[1][1], pq[1][2], "APOIAVIGA"), No(pq[2][1], pq[2][2], "APOIAVIGA")>>) :
        v \in {Viga(1), Viga(3)},
        pq \in {r \in Pontos \X Pontos : r[1] # r[2] /\ Alinhados(r[1], r[2])}}

PavimentosDobrados ==
    UNION {{<<VigaDobrada, a>>, <<a, VigaDobrada>>} : a \in OutrasVigas}

InitMapearDobrada ==
    /\ pc = "mapear"
    /\ todas_vigas \in PavimentosDobrados
    /\ mapeamento_vigas = None
    /\ XiParado /\ EntradaParada /\ EspParado /\ RelgerParado /\ ValidarParado
    /\ CompletoParado
    /\ MenuParado

SpecMapearDobrada == InitMapearDobrada /\ [][NextMapear]_vars

---------------------------------------------------------------------------
(* Claims checked under SpecXi *)

\* C8: a support point whose distance to every segment of the host polyline
\* exceeds the membership tolerance 0.5 is resolved to no xi (None).
C8_ForaDaToleranciaSemXi ==
    pc = "xi_feito" /\ NosConsecutivosDistintos(coords_hospedeira) =>
        \A k \in 1..Len(apoios) :
            TemCoordenadas(apoios[k])
            /\ ForaDaTolerancia(PontoDe(apoios[k]), coords_hospedeira)
            => apoios_com_xi[k].xi_acumulado = None

\* C9: for a host with fewer than 2 nodes no xi value is produced for any of
\* its supports, in particular not the value 0.
C9_MenosDeDoisNosSemXi ==
    pc = "xi_feito" /\ Len(coords_hospedeira) < 2 =>
        \A k \in 1..Len(apoios) : apoios_com_xi[k].xi_acumulado = None

\* C10 as stated: on every polyline with distinct consecutive nodes, also one
\* that bends back on, touches or crosses itself, the point placed at every
\* arc-length position p in 0..L is resolved to xi_acumulado = p.
C10_IdaEVoltaQualquerPolilinha ==
    pc = "xi_feito" /\ NosConsecutivosDistintos(coords_hospedeira) =>
        \A k \in 1..Len(apoios) :
            TemCoordenadas(apoios[k]) =>
                \A p \in PosicoesDe(coords_hospedeira, PontoDe(apoios[k])) :
                    apoios_com_xi[k].xi_acumulado = Some(p)

\* C10 amended: on every polyline with distinct consecutive nodes that does
\* not bend back on, touch or cross itself, the point placed at arc-length
\* position p in 0..L is resolved to xi_acumulado = p.
C10_IdaEVoltaPolilinhaSimples ==
    pc = "xi_feito" /\ NosConsecutivosDistintos(coords_hospedeira)
    /\ PolilinhaSimples(coords_hospedeira) =>
        \A k \in 1..Len(apoios) :
            TemCoordenadas(apoios[k]) =>
                \A p \in PosicoesDe(coords_hospedeira, PontoDe(apoios[k])) :
                    apoios_com_xi[k].xi_acumulado = Some(p)

\* C10 witness: a point strictly inside the second segment of a simple bent
\* polyline has been resolved to its arc-length position.
C10_Testemunha ==
    /\ pc = "xi_feito"
    /\ Len(coords_hospedeira) = 3
    /\ NosConsecutivosDistintos(coords_hospedeira)
    /\ PolilinhaSimples(coords_hospedeira)
    /\ coords_hospedeira[1][2] = coords_hospedeira[2][2]
    /\ coords_hospedeira[2][1] = coords_hospedeira[3][1]
    /\ \E k \in 1..Len(apoios) :
          /\ TemCoordenadas(apoios[k])
          /\ \E p \in PosicoesDe(coords_hospedeira, PontoDe(apoios[k])) :
                /\ p > xi_nos(coords_hospedeira)[2]
                /\ p < Comprimento(coords_hospedeira)
                /\ apoios_com_xi[k].xi_acumulado = Some(p)

\* the perpendicular foot of pt on the line of p1-p2 falls beyond p1 or beyond p2
PeAlemDoExtremo(pt, p1, p2) ==
    ProdutoEscalar(pt, p1, p2) < 0 \/ ProdutoEscalar(pt, p1, p2) > Len2Seg(p1, p2)

\* C11: a support point whose perpendicular foot falls beyond an endpoint of
\* every segment of the host gets no arc-length position on the host.
C11_PeAlemDoExtremoSemXi ==
    pc = "xi_feito" /\ NosConsecutivosDistintos(coords_hospedeira) =>
        \A k \in 1..Len(apoios) :
            /\ TemCoordenadas(apoios[k])
            /\ \A s \in 1..(Len(coords_hospedeira) - 1) :
                  PeAlemDoExtremo(PontoDe(apoios[k]), coords_hospedeira[s],
                                  coords_hospedeira[s + 1])
            => apoios_com_xi[k].xi_acumulado = None

\* d is the distance between the points p and q
DistanciaEntre(p, q, d) == d >= 0 /\ d * d = Len2Seg(p, q)

\* C16: for a host polyline with n >= 2 nodes the node arc-lengths have n
\* entries, start at 0, never decrease, and each entry is the previous one
\* plus the distance between the two consecutive nodes.
C16_ComprimentosAcumulados ==
    pc = "xi_feito" /\ Len(coords_hospedeira) >= 2 =>
        /\ Len(xi_nos(coords_hospedeira)) = Len(coords_hospedeira)
        /\ xi_nos(coords_hospedeira)[1] = 0
        /\ \A k \in 2..Len(coords_hospedeira) :
              /\ xi_nos(coords_hospedeira)[k] >= xi_nos(coords_hospedeira)[k - 1]
              /\ DistanciaEntre(coords_hospedeira[k - 1], coords_hospedeira[k],
                                xi_nos(coords_hospedeira)[k]
                                - xi_nos(coords_hospedeira)[k - 1])

\* C16 witness: a polyline of three nodes with two segments of non-zero
\* length has been processed.
C16_Testemunha ==
    /\ pc = "xi_feito"
    /\ Len(coords_hospedeira) = 3
    /\ xi_nos(coords_hospedeira)[2] > 0
    /\ xi_nos(coords_hospedeira)[3] > xi_nos(coords_hospedeira)[2]

\* the length of segment s of the polyline
ComprimentoDe(coords, s) == Raiz(Len2Seg(coords[s], coords[s + 1]))

\* segment s is shorter than 0.01 cm
Curto(coords, s) == 100 * ComprimentoDe(coords, s) < escala

\* the sum of the lengths of the segments before segment s
RECURSIVE SomaAntes(_, _)
SomaAntes(coords, s) ==
    IF s <= 1 THEN 0 ELSE SomaAntes(coords, s - 1) + ComprimentoDe(coords, s - 1)

\* the point of segment s nearest to pt
MaisPertoEm(coords, s, pt) ==
    CHOOSE q \in PontosDoSegmento(coords[s], coords[s + 1]) :
        Len2Seg(pt, q) = Dist2AoSegmento(pt, coords[s], coords[s + 1])

\* the arc-length of the point of segment s nearest to pt
XiEm(coords, s, pt) ==
    SomaAntes(coords, s) + Raiz(Len2Seg(coords[s], MaisPertoEm(coords, s, pt)))

Segmentos(coords) == 1..(Len(coords) - 1)

\* C19: a segment shorter than 0.01 is never the segment a point projects
\* onto, and the xi of a point includes the lengths of all the segments before
\* the one it projects onto, the shorter ones too.
C19_CurtoIgnoradoMasSomado ==
    pc = "xi_feito" =>
        \A k \in 1..Len(apoios) :
            /\ TemCoordenadas(apoios[k])
            /\ \E s \in Segmentos(coords_hospedeira) : ~Curto(coords_hospedeira, s)
            => \E s \in Segmentos(coords_hospedeira) :
                  /\ ~Curto(coords_hospedeira, s)
                  /\ apoios_com_xi[k].xi_acumulado =
                        Some(XiEm(coords_hospedeira, s, PontoDe(apoios[k])))

\* C19 witness: a point nearest to the start of a short first segment of
\* non-zero length has been resolved on the second segment, to the length of
\* the first.
C19_Testemunha ==
    /\ pc = "xi_feito"
    /\ Len(coords_hospedeira) = 3
    /\ ComprimentoDe(coords_hospedeira, 1) > 0 /\ Curto(coords_hospedeira, 1)
    /\ ~Curto(coords_hospedeira, 2)
    /\ Len(apoios) = 1 /\ TemCoordenadas(apoios[1])
    /\ PontoDe(apoios[1]) = coords_hospedeira[1]
    /\ apoios_com_xi[1].xi_acumulado = Some(ComprimentoDe(coords_hospedeira, 1))

\* the segments of length 0.01 cm or more
NaoCurtos(coords) == {s \in Segmentos(coords) : ~Curto(coords, s)}

\* the segment of smallest distance to pt among those of length 0.01 or more,
\* the one of lowest index among those at that distance
SegmentoEscolhido(coords, pt) ==
    CHOOSE s \in NaoCurtos(coords) :
        \A r \in NaoCurtos(coords) :
            \/ Dist2AoSegmento(pt, coords[s], coords[s + 1])
                  < Dist2AoSegmento(pt, coords[r], coords[r + 1])
            \/ /\ Dist2AoSegmento(pt, coords[s], coords[s + 1])
                     = Dist2AoSegmento(pt, coords[r], coords[r + 1])
               /\ s <= r

\* xi is the arc-length of the start of the chosen segment plus the clamped
\* projection of the point on it
XiNoSegmentoEscolhido(k) ==
    TemCoordenadas(apoios[k]) /\ NaoCurtos(coords_hospedeira) # {} =>
        apoios_com_xi[k].xi_acumulado =
            Some(XiEm(coords_hospedeira,
                      SegmentoEscolhido(coords_hospedeira, PontoDe(apoios[k])),
                      PontoDe(apoios[k])))

\* the interior nodes of the polyline
NosInteriores(coords) == 2..(Len(coords) - 1)

\* node n lies on none of the segments before the one that ends at it
ForaDosAnteriores(coords, n) ==
    \A r \in NaoCurtos(coords) :
        r < n - 1 => Dist2AoSegmento(coords[n], coords[r], coords[r + 1]) > 0

\* C20 as stated: xi is the arc-length of node i plus t times the length of
\* segment i, t the projection fraction clamped to [0,1] and i the
\* non-degenerate segment nearest to the point, the lowest index at equal
\* distance; and a point at a shared interior node has that node's arc-length.
C20_XiDoSegmentoMaisProximo ==
    pc = "xi_feito" =>
        \A k \in 1..Len(apoios) :
            /\ XiNoSegmentoEscolhido(k)
            /\ \A n \in NosInteriores(coords_hospedeira) :
                  TemCoordenadas(apoios[k]) /\ PontoDe(apoios[k]) = coords_hospedeira[n] =>
                      apoios_com_xi[k].xi_acumulado = Some(SomaAntes(coords_hospedeira, n))

\* C20 amended: the same rule; and a point at a shared interior node that lies
\* on no earlier segment of the polyline has that node's arc-length.
C20_XiDoSegmentoMaisProximoNoForaDosAnteriores ==
    pc = "xi_feito" =>
        \A k \in 1..Len(apoios) :
            /\ XiNoSegmentoEscolhido(k)
            /\ \A n \in NosInteriores(coords_hospedeira) :
                  /\ TemCoordenadas(apoios[k])
                  /\ PontoDe(apoios[k]) = coords_hospedeira[n]
                  /\ ForaDosAnteriores(coords_hospedeira, n)
                  => apoios_com_xi[k].xi_acumulado = Some(SomaAntes(coords_hospedeira, n))

\* C20 witness: a point at the node shared by two segments of non-zero length,
\* on no earlier segment, has been resolved to the arc-length of that node.
C20_Testemunha ==
    /\ pc = "xi_feito"
    /\ Len(apoios) = 1 /\ TemCoordenadas(apoios[1])
    /\ \E n \in NosInteriores(coords_hospedeira) :
          /\ PontoDe(apoios[1]) = coords_hospedeira[n]
          /\ {n - 1, n} \subseteq NaoCurtos(coords_hospedeira)
          /\ ForaDosAnteriores(coords_hospedeira, n)
          /\ n > 2
          /\ SomaAntes(coords_hospedeira, n) > 0
          /\ apoios_com_xi[1].xi_acumulado = Some(SomaAntes(coords_hospedeira, n))

\* C29: for every host polyline and every candidate with coordinates, the
\* xi_acumulado computed lies in [0, L], L being the total arc-length of the
\* polyline, wherever in the plane the point is.
C29_XiDentroDaViga ==
    pc = "xi_feito" =>
        \A k \in 1..Len(apoios) :
            TemCoordenadas(apoios[k]) =>
                /\ apoios_com_xi[k].xi_acumulado # None
                /\ 0 <= Val(apoios_com_xi[k].xi_acumulado)
                /\ Val(apoios_com_xi[k].xi_acumulado)
                      <= SomaAntes(coords_hospedeira, Len(coords_hospedeira))

\* C29 witness: a point off the axis of the last segment and beyond its end
\* has been resolved to the total arc-length of a polyline of two segments.
C29_Testemunha ==
    /\ pc = "xi_feito"
    /\ Len(coords_hospedeira) = 3
    /\ NaoCurtos(coords_hospedeira) = {1, 2}
    /\ Len(apoios) = 1 /\ TemCoordenadas(apoios[1])
    /\ Dist2AoSegmento(PontoDe(apoios[1]), coords_hospedeira[1], coords_hospedeira[2]) > 0
    /\ Dist2AoSegmento(PontoDe(apoios[1]), coords_hospedeira[2], coords_hospedeira[3]) > 0
    /\ apoios_com_xi[1].xi_acumulado
          = Some(SomaAntes(coords_hospedeira, Len(coords_hospedeira)))

---------------------------------------------------------------------------
(* Claims checked under SpecEsp *)

\* the supports of the host in the mapping of the state, and their resolved xi
ApoiosDaHospedeira == Get(mapeamento_apoios, Hospedeira, <<>>)
CoordsDaHospedeira == Get(coords_hospedeiras, Hospedeira, <<>>)
XiResolvidos == calcular_xi_acumulado_apoios(ApoiosDaHospedeira, CoordsDaHospedeira)
XiDaDemanda ==
    XiTrecho(Hospedeira, chamada.xi_local, chamada.vao_numero, chamada.linhas)
Diferenca(k) == Abs(Val(XiResolvidos[k].xi_acumulado) - XiDaDemanda)
ComXiResolvido == {k \in 1..Len(ApoiosDaHospedeira) : XiResolvidos[k].xi_acumulado # None}

\* C5: given several candidates for the host, the returned candidate is the
\* one whose resolved xi_acumulado has the minimum absolute difference to the
\* demand Xi, and among candidates with the same minimum difference the one
\* that comes first in the candidate list.
C5_MinimaDiferencaPrimeiroNoEmpate ==
    pc = "esp_feito" /\ Len(ApoiosDaHospedeira) >= 2 /\ CoordsDaHospedeira # <<>>
    /\ ComXiResolvido # {} =>
        \E k \in ComXiResolvido :
            /\ resultado.viga_apoiada = Some(ApoiosDaHospedeira[k].viga_apoiada)
            /\ resultado.x_apoio = ApoiosDaHospedeira[k].x
            /\ resultado.y_apoio = ApoiosDaHospedeira[k].y
            /\ \A j \in ComXiResolvido : Diferenca(k) <= Diferenca(j)
            /\ \A j \in ComXiResolvido : j < k => Diferenca(j) > Diferenca(k)

\* C5 witness: two candidates at different positions are equally far from the
\* demand Xi, and the first of the list has been returned.
C5_Testemunha ==
    /\ pc = "esp_feito"
    /\ Len(ApoiosDaHospedeira) = 2
    /\ CoordsDaHospedeira # <<>>
    /\ ComXiResolvido = {1, 2}
    /\ XiResolvidos[1].xi_acumulado # XiResolvidos[2].xi_acumulado
    /\ Diferenca(1) = Diferenca(2)
    /\ resultado.viga_apoiada = Some(ApoiosDaHospedeira[1].viga_apoiada)

---------------------------------------------------------------------------
(* Claims checked under SpecRelger *)

Registros == {vigas_extraidas[k] : k \in 1..Len(vigas_extraidas)}

\* the beams whose REAC. APOIO relation lists h or a suffix variant of h
CandidatasDe(h) == encontrar_vigas_apoiadas_por_hospedeira(h, linhas)

\* the REAC. APOIO relation of s lists h, V<h>-A or V<h>-B
ConfirmadoPeloRelatorio(h, s) ==
    \E k \in 1..Len(extrair_apoios_reac_apoio(linhas)) :
        /\ extrair_apoios_reac_apoio(linhas)[k].viga = s
        /\ \E a \in {Viga(h.num), VigaSuf(h.num, "A"), VigaSuf(h.num, "B")} :
              NaLista(a, extrair_apoios_reac_apoio(linhas)[k].apoios)

\* the supports of h in the geometry mapping, and the nodes of h
ApoiosNoMapeamento(h) == Get(mapeamento_apoios, h, <<>>)
NosDe(h) == Get(coords_hospedeiras, h, <<>>)

SemApoiada(r) ==
    r.viga_apoiada = None /\ r.a_cm = None /\ r.x_apoio = None /\ r.y_apoio = None

\* the rows with AsTrt != 0 among the lines read so far
LinhasComAsTrt ==
    {k \in 1..Len(linhas) :
        /\ k < i
        /\ linhas[k].t = "dados"
        /\ linhas[k].tokens[Posicao("AsTrt", CabecalhoCompleto)] # 0}

\* C18: a report that cannot be read ends the run: processar_relger returns
\* None, processar_relger_completo returns False, no JSON is generated, no
\* data is displayed, and the report is not read again.
C18_FalhaAoLerEncerra ==
    caminho_relger # None /\ dados = None /\ pc \in {"relger_fim", "exibir", "completo_fim"} =>
        /\ i = 0
        /\ ~json_gerado
        /\ ~exibido
        /\ pc # "exibir"
        /\ pc = "completo_fim" => sucesso = Some(FALSE)

\* C18 witness: the run has ended after the report could not be read.
C18_Testemunha ==
    /\ pc = "completo_fim"
    /\ caminho_relger # None
    /\ dados = None
    /\ sucesso = Some(FALSE)

\* C1: in every emitted record whose viga_apoiada is not absent, the chosen
\* supported beam is confirmed by the report for the record's host: its REAC.
\* APOIO relation lists the host or one of its suffix variants.
C1_ApoiadaConfirmadaPeloRelatorio ==
    \A r \in Registros :
        r.viga_apoiada # None => ConfirmadoPeloRelatorio(r.ref, Val(r.viga_apoiada))

VaoDesconhecido ==
    \/ chamada.vao_numero = None
    \/ chamada.linhas = None
    \/ \A k \in 1..Len(Val(chamada.linhas)) :
          Val(chamada.linhas)[k].t = "vao" =>
              Val(chamada.linhas)[k].numero # Val(chamada.vao_numero)

\* the distance from the xi of candidate k to the local Xi of the call
DiferencaLocal(k) == Abs(Val(XiResolvidos[k].xi_acumulado) - chamada.xi_local)

\* C28: when the span of the demand is not among the spans parsed for the
\* host, or no span id or report lines are passed, the span start is taken as
\* 0: the candidates are compared with the local Xi of the record, and a
\* candidate is selected.
C28_VaoDesconhecidoUsaXiLocal ==
    pc = "esp_feito" /\ VaoDesconhecido /\ CoordsDaHospedeira # <<>>
    /\ ComXiResolvido # {} =>
        \E k \in ComXiResolvido :
            /\ resultado.viga_apoiada = Some(ApoiosDaHospedeira[k].viga_apoiada)
            /\ resultado.x_apoio = ApoiosDaHospedeira[k].x
            /\ resultado.y_apoio = ApoiosDaHospedeira[k].y
            /\ \A j \in ComXiResolvido : DiferencaLocal(k) <= DiferencaLocal(j)
            /\ \A j \in ComXiResolvido : j < k => DiferencaLocal(j) > DiferencaLocal(k)

\* C28 witness: a call for span 3, which the report of the host does not
\* have, has returned the nearer to its local Xi of two candidates.
C28_Testemunha ==
    /\ pc = "esp_feito"
    /\ chamada.vao_numero = Some("3") /\ chamada.linhas # None
    /\ Len(ApoiosDaHospedeira) = 2
    /\ ComXiResolvido = {1, 2}
    /\ DiferencaLocal(2) < DiferencaLocal(1)
    /\ resultado.viga_apoiada = Some(ApoiosDaHospedeira[2].viga_apoiada)

\* C6 as stated: when exactly one candidate exists for the host of a demand
\* record -- one beam of the report lists the host, or the geometry mapping
\* holds one support for the host among which to choose -- that candidate is
\* the supported beam of the record, also when it carries no x/y or the host
\* has no node coordinates.
C6_UmaCandidataNuncaAusente ==
    \A r \in Registros :
        /\ Len(CandidatasDe(r.ref)) = 1 => r.viga_apoiada = Some(CandidatasDe(r.ref)[1])
        /\ Len(CandidatasDe(r.ref)) > 1 /\ Len(ApoiosNoMapeamento(r.ref)) = 1 =>
              r.viga_apoiada = Some(ApoiosNoMapeamento(r.ref)[1].viga_apoiada)

\* C6 amended: when exactly one beam of the report lists the host, that beam
\* is the supported beam of the record, whatever the mapping and the node
\* coordinates hold; when several beams list the host and the geometry mapping
\* holds exactly one support for it, that support is the supported beam if it
\* carries x/y and the host has node coordinates, and the result is absent
\* otherwise.
C6_UmaCandidataUsadaDiretamente ==
    \A r \in Registros :
        /\ Len(CandidatasDe(r.ref)) = 1 => r.viga_apoiada = Some(CandidatasDe(r.ref)[1])
        /\ Len(CandidatasDe(r.ref)) > 1 /\ Len(ApoiosNoMapeamento(r.ref)) = 1 =>
              IF TemCoordenadas(ApoiosNoMapeamento(r.ref)[1]) /\ NosDe(r.ref) # <<>>
              THEN r.viga_apoiada = Some(ApoiosNoMapeamento(r.ref)[1].viga_apoiada)
              ELSE SemApoiada(r)

\* C6 witness: a record whose host is listed by exactly one beam has that beam
\* as its supported beam although the mapping holds no coordinates for it.
C6_Testemunha ==
    \E r \in Registros :
        /\ Len(CandidatasDe(r.ref)) = 1
        /\ ApoiosNoMapeamento(r.ref) = <<>>
        /\ NosDe(r.ref) = <<>>
        /\ r.viga_apoiada = Some(CandidatasDe(r.ref)[1])
        /\ r.x_apoio = None

\* C7 as stated: when no beam's relation lists the host, or the host has no
\* entry or an empty entry in the geometry mapping, or its node coordinates
\* are missing, the record is emitted with viga_apoiada, a_cm, x_apoio and
\* y_apoio absent.
C7_SemCandidataTudoAusente ==
    /\ Len(vigas_extraidas) = Cardinality(LinhasComAsTrt)
    /\ \A r \in Registros :
          \/ Len(CandidatasDe(r.ref)) = 0
          \/ ApoiosNoMapeamento(r.ref) = <<>>
          \/ NosDe(r.ref) = <<>>
          => SemApoiada(r)

\* C7 amended: when no beam's relation lists the host, or several beams list
\* it and the host has no entry or an empty entry in the geometry mapping or
\* its node coordinates are missing, the record is emitted with viga_apoiada,
\* a_cm, x_apoio and y_apoio absent.
C7_SemCandidataOuSemGeometriaAusente ==
    /\ Len(vigas_extraidas) = Cardinality(LinhasComAsTrt)
    /\ \A r \in Registros :
          \/ Len(CandidatasDe(r.ref)) = 0
          \/ /\ Len(CandidatasDe(r.ref)) > 1
             /\ ApoiosNoMapeamento(r.ref) = <<>> \/ NosDe(r.ref) = <<>>
          => SemApoiada(r)

\* C7 witness: a record has been emitted with its supported-beam fields absent
\* for a host that several beams list, that has supports with coordinates in
\* the geometry mapping and no node coordinates.
C7_Testemunha ==
    \E r \in Registros :
        /\ Len(CandidatasDe(r.ref)) > 1
        /\ Len(ApoiosNoMapeamento(r.ref)) >= 1
        /\ TemCoordenadas(ApoiosNoMapeamento(r.ref)[1])
        /\ NosDe(r.ref) = <<>>
        /\ SemApoiada(r)

---------------------------------------------------------------------------
(* Claim about validar_apoios_cruzado, checked under SpecValidar *)

\* the beams the report names in the REAC. APOIO relation of beam v
RelacaoDe(v) ==
    LET apoios_relger == extrair_apoios_reac_apoio(linhas)
        k == IndiceDe(apoios_relger, v)
    IN  IF k = 0 THEN <<>> ELSE apoios_relger[k].apoios

\* a and b are the same beam up to a suffix: one of them is the bare id
\* V<n> and the other V<n> or a variant V<n>-A / V<n>-B, or they are equal
MesmaVigaSobAlias(a, b) == a.num = b.num /\ (a.suf = "" \/ b.suf = "" \/ a.suf = b.suf)

\* the relation of the supported beam lists the host under one of its aliases
ListadaSobAlias(h, apoiada) ==
    \E k \in 1..Len(RelacaoDe(apoiada)) : MesmaVigaSobAlias(h, RelacaoDe(apoiada)[k])

\* validar_apoios_cruzado kept the support under its host
Mantido(h, apoio) ==
    h \in DOMAIN mapeamento_validado /\ NaLista(apoio, mapeamento_validado[h])

\* C2: validar_apoios_cruzado keeps a candidate (host, supported) whenever the
\* report relation of the supported beam lists the host's bare id or one of
\* its suffix variants, and keeps a candidate whose host is a variant when
\* the relation lists the bare id.
C2_ValidacaoSimetricaSobAliases ==
    pc = "validar_feito" =>
        \A h \in DOMAIN mapeamento_apoios :
            \A k \in 1..Len(mapeamento_apoios[h]) :
                ListadaSobAlias(h, mapeamento_apoios[h][k].viga_apoiada)
                    => Mantido(h, mapeamento_apoios[h][k])

---------------------------------------------------------------------------
(* Claims about carregar_mapeamento_apoios and processar_relger_completo,  *)
(* checked under Spec                                                      *)

\* carregar_mapeamento_apoios has returned
Carregado == pc \notin {"selecionar", "carregar"} /\ provedor # <<>>

\* the item {viga_apoiada, x, y} of a provider entry
ItemDe(e) == [viga_apoiada |-> e.ident, x |-> Some(e.x), y |-> Some(e.y)]

\* the provider entry e is an item under its host beam in the loaded mapping
EntradaCarregada(e) ==
    /\ e.viga_hospedeira \in DOMAIN mapeamento_apoios
    /\ NaLista(ItemDe(e), mapeamento_apoios[e.viga_hospedeira])

\* C3: when mapear_apoios_vigas returns a non-empty mapping, every entry of
\* it appears as an item {viga_apoiada, x, y} under its host beam in the
\* mapping carregar_mapeamento_apoios returns.
C3_NenhumaEntradaPerdida ==
    (Carregado /\ ~provedor.falhou) =>
        \A k \in 1..Len(provedor.mapeamento) : EntradaCarregada(provedor.mapeamento[k])

\* C4: when mapear_apoios_vigas fails, processar_relger_completo does not go
\* on to process the report and write the output JSON.
C4_FalhaDoProvedorInterrompe ==
    (provedor # <<>> /\ provedor.falhou) => ~(dados # None /\ json_gerado)

---------------------------------------------------------------------------
(* Claims about mapear_apoios_vigas, checked under SpecMapear *)

\* the entries of the dict returned
Entradas == {Val(mapeamento_vigas)[k] : k \in 1..Len(Val(mapeamento_vigas))}

\* the nodes of beam a marked APOIAVIGA that lie on a segment of beam b
NosApoiadosEm(a, b) ==
    {n \in 1..Len(todas_vigas[a].nos) :
        /\ todas_vigas[a].nos[n].crossingType = "APOIAVIGA"
        /\ AlgumSegmentoContem(CoordsDaViga(todas_vigas[a])[n], CoordsDaViga(todas_vigas[b]))}

\* the entries that record beam a as resting on beam b
EntradasDoPar(a, b) ==
    {e \in Entradas : e.ident = todas_vigas[a].ident
                      /\ e.viga_hospedeira = todas_vigas[b].ident}

\* C12: for every pair (host, supported) detected there is exactly one
\* candidate, and its position is that of the first node detected; a beam
\* resting on two hosts gives two candidates.
C12_UmCandidatoPorParOPrimeiro ==
    pc = "mapear_feito" =>
        \A a \in 1..Len(todas_vigas), b \in 1..Len(todas_vigas) :
            a # b /\ NosApoiadosEm(a, b) # {} =>
                /\ Cardinality(EntradasDoPar(a, b)) = 1
                /\ \A e \in EntradasDoPar(a, b) :
                      <<e.x, e.y>> = CoordsDaViga(todas_vigas[a])[MenorDe(NosApoiadosEm(a, b))]

\* C13: every candidate comes from a node of the supported beam that is
\* marked APOIAVIGA; a node of any other crossing type gives no candidate.
C13_SoNosApoiaViga ==
    pc = "mapear_feito" =>
        \A e \in Entradas :
            \E a \in 1..Len(todas_vigas) :
                /\ todas_vigas[a].ident = e.ident
                /\ \E n \in 1..Len(todas_vigas[a].nos) :
                      /\ CoordsDaViga(todas_vigas[a])[n] = <<e.x, e.y>>
                      /\ todas_vigas[a].nos[n].crossingType = "APOIAVIGA"

---------------------------------------------------------------------------
(* Claim about the shear-table parser, checked under SpecCis *)

\* the token of the row under column c of the header of the state; 0 when
\* the header has no such column or the row ends before it
TokenSob(c) ==
    LET cab == linhas[1].colunas
        tokens == linhas[2].tokens
    IN  IF NaLista(c, cab) /\ Posicao(c, cab) <= Len(tokens)
        THEN tokens[Posicao(c, cab)]
        ELSE 0

\* C14: whatever the order and the presence of the columns in the header,
\* the row is parsed into a record, and each field holds the token under its
\* column of the actual header, or 0 for a column absent from header or row.
C14_ValoresSobAsColunasDoCabecalho ==
    pc = "cis_feito" =>
        /\ dados # None
        /\ Val(dados).aswmin = TokenSob("Aswmin")
        /\ Val(dados).asw_ct = TokenSob("Asw[C+T]")
        /\ Val(dados).astrt = TokenSob("AsTrt")
        /\ Val(dados).assus = TokenSob("AsSus")

---------------------------------------------------------------------------
(* Claim about the demand position, checked under SpecVao *)

\* the competitor of the candidate V2 in the mapping of the state
Concorrente ==
    LET l == mapeamento_apoios[Hospedeira]
    IN  IF l[1].viga_apoiada = Viga(2) THEN l[2] ELSE l[1]

\* the xi the host polyline gives to a support
XiNaHospedeira(apoio) ==
    Val(calcular_xi_acumulado_apoios(<<apoio>>, coords_hospedeiras[Hospedeira])[1].xi_acumulado)

\* C15: the demand at local Xi 5 in the span that starts at 10 is compared at
\* the global Xi 15: the candidate at (15, 0), whose xi is 15, is selected
\* over every competitor whose xi is farther from 15.
C15_DemandaNoXiGlobal ==
    pc = "vao_feito" =>
        /\ \A k \in 1..2 :
              mapeamento_apoios[Hospedeira][k].viga_apoiada = Viga(2) =>
                  XiNaHospedeira(mapeamento_apoios[Hospedeira][k]) = 15
        /\ XiNaHospedeira(Concorrente) # 15 =>
              /\ resultado.viga_apoiada = Some(Viga(2))
              /\ resultado.x_apoio = Some(15)
              /\ resultado.y_apoio = Some(0)

\* C15 witness: the competitor sits at xi 5, the local Xi of the demand, and
\* comes first in the list, and the candidate at (15, 0) has been selected.
C15_Testemunha ==
    /\ pc = "vao_feito"
    /\ mapeamento_apoios[Hospedeira][1].viga_apoiada = Viga(3)
    /\ XiNaHospedeira(Concorrente) = 5
    /\ resultado.viga_apoiada = Some(Viga(2))

---------------------------------------------------------------------------
(* Claims checked under SpecEncontrar *)

\* the beams of the blocks of the report, by the index of their 'Viga=' line
LinhasDeViga == {k \in 1..Len(linhas) : linhas[k].t = "viga"}

\* the first 'Viga=' line of beam v
PrimeiraLinhaDe(v) ==
    MenorDe({k \in LinhasDeViga : extrair_ref_viga(linhas[k]) = Some(v)})

\* C21: encontrar_vigas_apoiadas_por_hospedeira(H, report) returns exactly
\* the beams other than H whose REAC. APOIO list contains V<n> of H, V<n>-A
\* or V<n>-B, each beam once, in the order the beams appear in the report;
\* H itself is never returned.
C21_ApoiadasSemAHospedeira ==
    pc = "encontrar_feito" =>
        /\ \A v \in {Val(extrair_ref_viga(linhas[k])) : k \in LinhasDeViga} :
              NaLista(v, resultado) <=>
                  v # chamada.viga_hospedeira
                  /\ ConfirmadoPeloRelatorio(chamada.viga_hospedeira, v)
        /\ \A a, b \in 1..Len(resultado) :
              a < b => /\ resultado[a] # resultado[b]
                       /\ PrimeiraLinhaDe(resultado[a]) < PrimeiraLinhaDe(resultado[b])
        /\ ~NaLista(chamada.viga_hospedeira, resultado)

---------------------------------------------------------------------------
(* Claims checked under SpecQuadro *)

ChavesDoApoio == {"viga_apoiada", "x", "y"}

---------------------------------------------------------------------------
(* Claims checked under SpecLaco *)

\* the shear headers with AsTrt among the lines before line k
CabecalhosAntes(k) == {h \in 1..(k - 1) : CabecalhoCisalhamento(linhas[h])}

MaiorDe(S) == CHOOSE m \in S : \A n \in S : m >= n

\* C23: a blank line or a line starting with 'T O R C A O' ends the current
\* shear block: no line read after it produces a record until another
\* CISALHAMENTO header with AsTrt has been read.
C23_BrancoEncerraOBloco ==
    [][Len(vigas_extraidas') > Len(vigas_extraidas) =>
          /\ CabecalhosAntes(i) # {}
          /\ \A k \in (MaiorDe(CabecalhosAntes(i)) + 1)..(i - 1) : LinhaTemDados(linhas[k])
      ]_vars

---------------------------------------------------------------------------
(* Claims checked under SpecMapearDobrada *)

\* within 1.0 cm of the first or of the last node of the polyline coords
NoExtremoDaViga(pt, coords) ==
    \/ Len2Seg(pt, coords[1]) <= Quadrado(NoEndTol)
    \/ Len2Seg(pt, coords[Len(coords)]) <= Quadrado(NoEndTol)

\* the beam objects that carry the title ident
VigasDeTitulo(ident) == {b \in 1..Len(todas_vigas) : todas_vigas[b].ident = ident}

\* C24: for every entry of mapear_apoios_vigas, morre is 0 exactly when the
\* support point lies within 1.0 cm of the first or of the last node of the
\* whole polyline of the host, and 2 otherwise, whatever the ends of the
\* segment on which the point was matched.
C24_MorrePelosExtremosDaViga ==
    pc = "mapear_feito" =>
        \A e \in Entradas :
            \E b \in VigasDeTitulo(e.viga_hospedeira) :
                /\ AlgumSegmentoContem(<<e.x, e.y>>, CoordsDaViga(todas_vigas[b]))
                /\ e.morre = IF NoExtremoDaViga(<<e.x, e.y>>, CoordsDaViga(todas_vigas[b]))
                             THEN 0 ELSE 2

\* C24 witness: a support point at the corner of the beam of two segments, an
\* end of both its segments, has been recorded with morre = 2.
C24_Testemunha ==
    /\ pc = "mapear_feito"
    /\ \E e \in Entradas :
          /\ e.viga_hospedeira = Viga(1) /\ e.ident = Viga(3)
          /\ <<e.x, e.y>> = <<MaxCoord, 0>>
          /\ e.morre = 2

\* C25: no beam is recorded as its own host: for every key A of the mapping
\* the viga_hospedeira of the entry differs from A, also when distinct beam
\* objects carry the same title.
C25_NenhumaVigaHospedaASiMesma ==
    pc = "mapear_feito" => \A e \in Entradas : e.viga_hospedeira # e.ident

---------------------------------------------------------------------------
(* Claims checked under SpecMenu *)

---------------------------------------------------------------------------
(* Claims checked under SpecGeometria *)

\* the 'Vao=' lines of the blocks whose 'Viga=' line names exactly ref
VaosDe(ref) ==
    {k \in 1..Len(linhas) :
        /\ linhas[k].t = "vao"
        /\ \E h \in 1..(k - 1) :
              /\ linhas[h].t = "viga" /\ linhas[h].titulo = ref
              /\ \A j \in (h + 1)..(k - 1) : linhas[j].t # "viga"}

\* the elements of a set of numbers in increasing order
RECURSIVE EmOrdem(_)
EmOrdem(S) == IF S = {} THEN <<>> ELSE <<MenorDe(S)>> \o EmOrdem(S \ {MenorDe(S)})

\* C27: extrair_geometria_completa_viga(lines, ref) returns only the spans of
\* the beam named ref, in report order, the start Xi of the first being 0 and
\* the start Xi of each following span the previous start plus the previous L
\* plus the previous BCs, also when the report has a beam whose identifier
\* has ref as a prefix or beams that reuse the span numbers.
C27_SoOsVaosDaViga ==
    pc = "geometria_feita" =>
        LET idx == EmOrdem(VaosDe(chamada.ref_viga))
        IN  /\ Len(resultado.vaos) = Len(idx)
            /\ \A k \in 1..Len(idx) :
                  /\ resultado.vaos[k].numero = linhas[idx[k]].numero
                  /\ resultado.vaos[k].L = linhas[idx[k]].L
                  /\ resultado.vaos[k].BCs = linhas[idx[k]].BCs
                  /\ linhas[idx[k]].numero \in DOMAIN resultado.xi_acumulado_por_vao
                  /\ resultado.xi_acumulado_por_vao[linhas[idx[k]].numero] =
                        IF k = 1 THEN 0
                        ELSE resultado.xi_acumulado_por_vao[linhas[idx[k - 1]].numero]
                             + linhas[idx[k - 1]].L + linhas[idx[k - 1]].BCs

====
